---- MODULE Spec2Model ----
(***************************************************************************)
(* Model of the eSIM checker backend:                                      *)
(*   - the renewal order state machine (pulse/renewal_service.py) over the *)
(*     persistent RenewalOrder / PaymentTransaction store (pulse/models.py)*)
(*     and the payment gateway (pulse/payment_service.py);                 *)
(*   - the parallel provider coordinator (script_optimized.py).            *)
(***************************************************************************)
EXTENDS Integers, Sequences, FiniteSets, TLC

(***************************************************************************)
(* Bounds of the model.                                                    *)
(***************************************************************************)
\* Checkout sessions the payment gateway may create.
MaxSessions == 2
\* verify_checkout_and_complete_order calls that may be started.
MaxConfirms == 2

(***************************************************************************)
(* Values.                                                                 *)
(***************************************************************************)
\* The model follows one RenewalOrder: rows of different orders share nothing.
OrderIds == {1}
SessionIds == 1..MaxSessions

\* Callers of verify_checkout_and_complete_order (request threads).
Callers == {"w1", "w2"}
\* The callers of the sequential specification: one call at a time.
SeqCallers == {"w1"}

\* RenewalOrder.STATUS_CHOICES
ORDER_STATUS_CHOICES ==
    {"PENDING", "PAID", "PROCESSING", "COMPLETED", "FAILED", "PROVIDER_FAILED", "CANCELLED"}

\* PaymentTransaction.STATUS_CHOICES
PAYMENT_STATUS_CHOICES == {"PENDING", "PROCESSING", "SUCCEEDED", "FAILED", "REFUNDED"}

\* Values of provider given to create_renewal_order (upper-cased there); the
\* serializer admits the three of PROVIDER_CHOICES, the service any string.
ProviderInputs == {"AIRHUB", "ESIMCARD", "TRAVELROAM", "OTHER"}

\* payment_status values of a Stripe checkout session.
GatewayStatuses == {"unpaid", "paid"}

\* dict.get(key, default)
Get(d, k, default) == IF k \in DOMAIN d THEN d[k] ELSE default

\* str.upper() on the payment_status values of the gateway.
Upper(s) ==
    CASE s = "paid" -> "PAID"
      [] s = "unpaid" -> "UNPAID"
      [] OTHER -> s

\* Placeholders of a caller that holds no object.
NullOrder ==
    [order_id |-> 0, status |-> "", provider |-> "", provider_order_id |-> "",
     provider_response |-> <<>>, completed_at |-> FALSE, email_sent |-> FALSE]
NullPayment ==
    [renewal_order |-> 0, status |-> "", stripe_charge_id |-> "", completed_at |-> FALSE]
NullInfo ==
    [gateway |-> "", paid_committed |-> FALSE, fulfil_calls |-> 0, provider |-> "",
     error |-> "", crash_at |-> ""]

VARIABLES
    orderRow,       \* RenewalOrder table: order id -> committed row
    payRow,         \* PaymentTransaction table: session id -> committed row
    gateway,        \* payment gateway: session id -> payment_status
    fulfilCalls,    \* order id -> provider fulfilment operations invoked so far
    lastCall,       \* order id -> the last fulfilment operation and its arguments
    refundCalls,    \* StripePaymentService.create_refund invocations
    confirms,       \* verify_checkout_and_complete_order calls started
    pc,             \* caller -> position in verify_checkout_and_complete_order
    sess,           \* caller -> session_id argument
    memOrder,       \* caller -> its in-memory RenewalOrder object
    memPayment,     \* caller -> its in-memory PaymentTransaction object
    pending,        \* caller -> provider_response or exception text in flight
    info,           \* caller -> what happened in the current call
    created,        \* order id -> the object create_renewal_order returned, as its
                    \* holder has it in memory now
    payCall,        \* process_payment: its position and, inside the call, its order
                    \* object (own: it is the object of created), its checkout session
    mailCall,       \* send_*_email: its position and, inside the call, its order object
    lookup,         \* provider -> what its lookup calls did (set when its worker runs)
    wstate,         \* provider -> state of its worker thread
    wret,           \* provider -> the tuple its worker returned
    results,        \* try_fetch_from_all_apis_parallel: the per-provider results map
    found_provider, \* try_fetch_from_all_apis_parallel: found_provider
    cpc,            \* position of the coordinator thread
    cidx,           \* index of the future the coordinator waits for
    timedOut,       \* provider -> its future.result(timeout=90) timed out
    cout,           \* what try_fetch_from_all_apis_parallel returned or raised
    fn,             \* the pure function applied last
    fnIn,           \* its arguments
    fnOut           \* its result

storeVars == <<orderRow, payRow>>
envVars == <<gateway, fulfilCalls, lastCall, refundCalls>>
callVars == <<confirms, pc, sess, memOrder, memPayment, pending, info>>
reqVars == <<created, payCall, mailCall>>
renewalVars == <<orderRow, payRow, gateway, fulfilCalls, lastCall, refundCalls,
                 confirms, pc, sess, memOrder, memPayment, pending, info,
                 created, payCall, mailCall>>
coordVars == <<lookup, wstate, wret, results, found_provider, cpc, cidx, timedOut, cout>>
fnVars == <<fn, fnIn, fnOut>>
vars == <<orderRow, payRow, gateway, fulfilCalls, lastCall, refundCalls,
          confirms, pc, sess, memOrder, memPayment, pending, info,
          created, payCall, mailCall,
          lookup, wstate, wret, results, found_provider, cpc, cidx, timedOut, cout,
          fn, fnIn, fnOut>>

NoCall == [op |-> "none", a1 |-> "", a2 |-> 0]

\* The provider names of the futures dict, in its insertion order.
FutureOrder == <<"airhub", "esimcard", "travelroam">>
ProviderNames == {"airhub", "esimcard", "travelroam"}

\* results as initialised at lines 100-104.
InitialResults ==
    [airhub |-> [found |-> FALSE, order |-> "None", activation |-> "None"],
     esimcard |-> [found |-> FALSE, esim |-> "None", details |-> "None", usage |-> "None"],
     travelroam |-> [found |-> FALSE, data |-> "None", bundles |-> "None", location |-> "None"]]

NoLookup == [made |-> FALSE]

InitCoord ==
    /\ lookup = [p \in ProviderNames |-> NoLookup]
    /\ wstate = [p \in ProviderNames |-> "idle"]
    /\ wret = [p \in ProviderNames |-> <<>>]
    /\ results = InitialResults
    /\ found_provider = "None"
    /\ cpc = "start"
    /\ cidx = 1
    /\ timedOut = [p \in ProviderNames |-> FALSE]
    /\ cout = [kind |-> "none"]

\* process_payment outside its two steps: no order object is held.
NoPayCall(at) == [pc |-> at, order |-> NullOrder, own |-> FALSE, session |-> 0]

Init ==
    /\ InitCoord
    /\ fn = "none"
    /\ fnIn = <<>>
    /\ fnOut = <<>>
    /\ orderRow = <<>>
    /\ payRow = <<>>
    /\ gateway = <<>>
    /\ fulfilCalls = [o \in OrderIds |-> 0]
    /\ lastCall = [o \in OrderIds |-> NoCall]
    /\ refundCalls = 0
    /\ confirms = 0
    /\ pc = [c \in Callers |-> "idle"]
    /\ sess = [c \in Callers |-> 0]
    /\ memOrder = [c \in Callers |-> NullOrder]
    /\ memPayment = [c \in Callers |-> NullPayment]
    /\ pending = [c \in Callers |-> <<>>]
    /\ info = [c \in Callers |-> NullInfo]
    /\ created = <<>>
    /\ payCall = NoPayCall("idle")
    /\ mailCall = [pc |-> "idle", order |-> NullOrder]

(***************************************************************************)
(* Requests under way.  A request holds the objects it loaded; what it     *)
(* saves is the whole object (Model.save() updates every column).          *)
(***************************************************************************)
\* Positions of verify_checkout_and_complete_order between its first query
\* and its return.
InFlight(c) == pc[c] \in {"load", "verify", "fulfil", "commit", "handle", "save", "refresh"}

\* No call is under way: the condition under which the specifications that
\* run one call at a time start the next call.
Quiet ==
    /\ \A c \in Callers : ~InFlight(c)
    /\ payCall.pc # "insert"
    /\ mailCall.pc # "send"

SaveOrder(rows, order) == [rows EXCEPT ![order.order_id] = order]
SavePayment(rows, s, payment) == [rows EXCEPT ![s] = payment]

\* The PaymentTransaction of an order, if any (OneToOneField renewal_order).
HasPayment(rows, o) == \E s \in DOMAIN rows : rows[s].renewal_order = o

(***************************************************************************)
(* RenewalService.create_renewal_order                                     *)
(***************************************************************************)
\* The provider_response written at create: renewal parameters.
CreateContext(plan_name, package_id, renewal_days, country_code) ==
    [plan_name |-> plan_name, package_id |-> package_id,
     renewal_days |-> IF renewal_days # 0 THEN renewal_days ELSE 7,
     country_code |-> country_code]

NewOrder(o, provider, order_sim_id, plan_name, package_id, renewal_days, country_code) ==
    [order_id |-> o, status |-> "PENDING", provider |-> provider,
     provider_order_id |-> order_sim_id,
     provider_response |-> CreateContext(plan_name, package_id, renewal_days, country_code),
     completed_at |-> FALSE, email_sent |-> FALSE]

\* The row is inserted and the object is returned to the caller.
create_renewal_order(provider, order_sim_id, plan_name, package_id, renewal_days, country_code) ==
    /\ DOMAIN orderRow # OrderIds
    /\ LET o == Cardinality(DOMAIN orderRow) + 1
           order == NewOrder(o, provider, order_sim_id, plan_name, package_id,
                             renewal_days, country_code)
       IN /\ orderRow' = orderRow @@ (o :> order)
          /\ created' = created @@ (o :> order)
    /\ UNCHANGED <<payRow, envVars, callVars, payCall, mailCall, coordVars, fnVars>>

CreateOrder ==
    /\ Quiet
    /\ \E provider \in ProviderInputs, package_id \in {"", "pkg"} :
        create_renewal_order(provider, "A1", "plan", package_id, 30, "")

(***************************************************************************)
(* RenewalService.process_payment(order): the checkout session is created  *)
(* at the gateway (lines 171-182), then the PaymentTransaction is inserted  *)
(* (lines 185-192); both except branches save the object the caller passed. *)
(***************************************************************************)
\* The PaymentTransaction inserted for a new checkout session.
NewPayment(o) ==
    [renewal_order |-> o, status |-> "PENDING", stripe_charge_id |-> "",
     completed_at |-> FALSE]

\* The except branches: order.status = 'FAILED'; order.save().
PaymentFailedOrder(order) == [order EXCEPT !.status = "FAILED"]

\* order.status = 'FAILED' is assigned to the object the caller passed
\* (lines 205, 210): when that is the object create_renewal_order returned,
\* its holder has it with FAILED from then on.
FailedInMemory(order, own) ==
    IF own THEN [created EXCEPT ![order.order_id] = PaymentFailedOrder(order)] ELSE created

\* Lines 167-182 and 203-207.  order: the caller's object, own: it is the
\* object create_renewal_order returned (otherwise one loaded for the call);
\* checkout_ok = FALSE: create_checkout_session raises PaymentError.
process_payment(order, own, checkout_ok) ==
    /\ payCall.pc # "insert"
    /\ order.order_id \in DOMAIN orderRow
    /\ LET s == Cardinality(DOMAIN gateway) + 1
       IN IF ~checkout_ok
          THEN /\ orderRow' = SaveOrder(orderRow, PaymentFailedOrder(order))
               /\ created' = FailedInMemory(order, own)
               /\ payCall' = NoPayCall("raised")
               /\ UNCHANGED gateway
          ELSE /\ Cardinality(DOMAIN gateway) < MaxSessions
               /\ gateway' = gateway @@ (s :> "unpaid")
               /\ payCall' = [pc |-> "insert", order |-> order, own |-> own, session |-> s]
               /\ UNCHANGED <<orderRow, created>>
    /\ UNCHANGED <<payRow, fulfilCalls, lastCall, refundCalls, callVars, mailCall,
                   coordVars, fnVars>>

\* Lines 185-201 and 208-212: PaymentTransaction.objects.create; a second
\* row for the order violates the one-to-one constraint (IntegrityError).
InsertPayment ==
    /\ payCall.pc = "insert"
    /\ IF HasPayment(payRow, payCall.order.order_id)
       THEN /\ orderRow' = SaveOrder(orderRow, PaymentFailedOrder(payCall.order))
            /\ created' = FailedInMemory(payCall.order, payCall.own)
            /\ payCall' = NoPayCall("raised")
            /\ UNCHANGED payRow
       ELSE /\ payRow' = payRow @@ (payCall.session :> NewPayment(payCall.order.order_id))
            /\ payCall' = NoPayCall("returned")
            /\ UNCHANGED <<orderRow, created>>
    /\ UNCHANGED <<envVars, callVars, mailCall, coordVars, fnVars>>

\* A caller of the service passes the object create_renewal_order gave it,
\* or an object it has just loaded.
InitiatePayment ==
    /\ Quiet
    /\ \E o \in DOMAIN orderRow, own \in BOOLEAN, checkout_ok \in BOOLEAN :
         process_payment(IF own THEN created[o] ELSE orderRow[o], own, checkout_ok)

\* The customer pays on the gateway's checkout page.
CustomerPays ==
    \E s \in DOMAIN gateway :
        /\ gateway[s] = "unpaid"
        /\ gateway' = [gateway EXCEPT ![s] = "paid"]
        /\ UNCHANGED <<storeVars, fulfilCalls, lastCall, refundCalls, callVars, reqVars,
                       coordVars, fnVars>>

(***************************************************************************)
(* RenewalService.send_esim_details_email and                               *)
(* send_renewal_confirmation_email: both load the order, look the eSIM up   *)
(* at the providers, send the mail and then save the object they loaded.    *)
(***************************************************************************)
\* Lines 392 / 459: RenewalOrder.objects.get(order_id=order_id).
SendEmailLoad(order_id) ==
    /\ mailCall.pc # "send"
    /\ mailCall' = IF order_id \in DOMAIN orderRow
                   THEN [pc |-> "send", order |-> orderRow[order_id]]
                   ELSE \* RenewalOrder.DoesNotExist: RenewalError
                        [pc |-> "idle", order |-> NullOrder]
    /\ UNCHANGED <<storeVars, envVars, callVars, created, payCall, coordVars, fnVars>>

\* Lines 395-427 / 462-493.  sent = FALSE: the lookup found nothing or the
\* mail server refused, the function raises before order.save().
SendEmailSave(sent) ==
    /\ mailCall.pc = "send"
    /\ IF sent
       THEN LET order == [mailCall.order EXCEPT !.email_sent = TRUE]
            IN orderRow' = SaveOrder(orderRow, order)
       ELSE UNCHANGED orderRow
    /\ mailCall' = [pc |-> "idle", order |-> NullOrder]
    /\ UNCHANGED <<payRow, envVars, callVars, created, payCall, coordVars, fnVars>>

(***************************************************************************)
(* RenewalService.verify_checkout_and_complete_order, step by step         *)
(***************************************************************************)
\* Lines 231-233: PaymentTransaction.objects.get(stripe_payment_intent_id=
\* session_id).
Begin(c, session_id) ==
    /\ ~InFlight(c)
    /\ confirms < MaxConfirms
    /\ confirms' = confirms + 1
    /\ sess' = [sess EXCEPT ![c] = session_id]
    /\ pending' = [pending EXCEPT ![c] = <<>>]
    /\ memOrder' = [memOrder EXCEPT ![c] = NullOrder]
    /\ IF session_id \in DOMAIN payRow
       THEN /\ memPayment' = [memPayment EXCEPT ![c] = payRow[session_id]]
            /\ info' = [info EXCEPT ![c] = NullInfo]
            /\ pc' = [pc EXCEPT ![c] = "load"]
       ELSE \* PaymentTransaction.DoesNotExist
            /\ memPayment' = [memPayment EXCEPT ![c] = NullPayment]
            /\ info' = [info EXCEPT ![c] = [NullInfo EXCEPT !.error = "Payment transaction not found"]]
            /\ pc' = [pc EXCEPT ![c] = "raised"]
    /\ UNCHANGED <<storeVars, envVars, reqVars, coordVars, fnVars>>

\* Line 234: payment.renewal_order, a query of its own.
LoadOrder(c) ==
    /\ pc[c] = "load"
    /\ memOrder' = [memOrder EXCEPT ![c] = orderRow[memPayment[c].renewal_order]]
    /\ pc' = [pc EXCEPT ![c] = "verify"]
    /\ UNCHANGED <<storeVars, envVars, confirms, sess, memPayment, pending, info,
                   reqVars, coordVars, fnVars>>

\* Step 1, lines 243-247: the payment object after the session was retrieved.
VerifiedPayment(payment, payment_status) ==
    [payment EXCEPT !.status = Upper(payment_status),
                    !.stripe_charge_id = IF payment_status = "paid" THEN "pi" ELSE @]

\* Step 1, lines 249-257: the order object after the session was retrieved.
VerifiedOrder(order, payment_status) ==
    [order EXCEPT !.status = IF payment_status = "paid" THEN "PAID" ELSE "FAILED"]

\* Step 1 leaves its atomic block normally only in the paid branch; the else
\* branch raises RenewalError inside the block.
Step1Commits(payment_status) == payment_status = "paid"

\* Mutant: step 1 saves the payment and forgets order.save().
Step1Commit_PaymentOnly(s, payment, order) ==
    <<orderRow, SavePayment(payRow, s, payment)>>

\* Mutant: step 1 commits nothing of its own (one transaction with step 2).
Step1Commit_Deferred(s, payment, order) == <<orderRow, payRow>>

\* The tables after step 1 commits: payment.save() and order.save().
Step1Commit(s, payment, order) ==
    <<SaveOrder(orderRow, order), SavePayment(payRow, s, payment)>>

\* Step 1: the transaction.atomic() block of lines 239-257.
\* retrieved = FALSE: retrieve_checkout_session raises PaymentError.
VerifyPayment(c, retrieved) ==
    /\ pc[c] = "verify"
    /\ IF ~retrieved
       THEN /\ info' = [info EXCEPT ![c].error = "Failed to confirm order"]
            /\ pc' = [pc EXCEPT ![c] = "raised"]
            /\ UNCHANGED <<storeVars, memOrder, memPayment>>
       ELSE LET st == gateway[sess[c]]
                payment == VerifiedPayment(memPayment[c], st)
                order == VerifiedOrder(memOrder[c], st)
            IN /\ memPayment' = [memPayment EXCEPT ![c] = payment]
               /\ memOrder' = [memOrder EXCEPT ![c] = order]
               /\ IF Step1Commits(st)
                  THEN /\ orderRow' = Step1Commit(sess[c], payment, order)[1]
                       /\ payRow' = Step1Commit(sess[c], payment, order)[2]
                       /\ info' = [info EXCEPT ![c].gateway = st, ![c].paid_committed = TRUE]
                       /\ pc' = [pc EXCEPT ![c] = "fulfil"]
                  ELSE \* the exception rolls the block back
                       /\ UNCHANGED storeVars
                       /\ info' = [info EXCEPT ![c].gateway = st,
                                               ![c].error = "Payment not successful"]
                       /\ pc' = [pc EXCEPT ![c] = "raised"]
    /\ UNCHANGED <<envVars, confirms, sess, pending, reqVars, coordVars, fnVars>>

(***************************************************************************)
(* RenewalService._process_with_provider                                   *)
(***************************************************************************)
\* Results of travelroam_find_matching_bundle: "" when nothing matched.
MatcherResults == {"", "bundle1"}

Invoked(op, a1, a2, api_ok, failure) ==
    [op |-> op, a1 |-> a1, a2 |-> a2, ok |-> api_ok,
     response |-> IF api_ok THEN [result |-> op] ELSE <<>>,
     error |-> IF api_ok THEN "" ELSE failure]

NotInvoked(failure) ==
    [op |-> "none", a1 |-> "", a2 |-> 0, ok |-> FALSE, response |-> <<>>, error |-> failure]

\* Mutant: an empty bundle name is passed on to travelroam_process_order.
ProcessWithProvider_AnyBundle(order, matched, api_ok) ==
    LET provider_data == order.provider_response
    IN CASE order.provider = "TRAVELROAM" ->
              LET package_id == Get(provider_data, "package_id", "")
              IN Invoked("travelroam_process_order",
                         IF package_id = "" THEN matched ELSE package_id, 0, api_ok,
                         "Failed to process TravelRoam order")
         [] order.provider = "AIRHUB" ->
              Invoked("airhub_renew_plan", order.provider_order_id,
                      Get(provider_data, "renewal_days", 7), api_ok,
                      "Failed to renew AirHub plan")
         [] order.provider = "ESIMCARD" ->
              Invoked("esimcard_purchase_package", Get(provider_data, "package_id", ""), 0,
                      api_ok, "Failed to purchase eSIMCard package")
         [] OTHER -> NotInvoked("Unknown provider")

\* matched: what travelroam_find_matching_bundle returns if it is asked;
\* api_ok: whether the provider's fulfilment request succeeds.
\* The result names the fulfilment operation invoked (or "none"), its
\* arguments, and the value returned or the text of the exception raised.
ProcessWithProvider(order, matched, api_ok) ==
    LET provider_data == order.provider_response
    IN CASE order.provider = "TRAVELROAM" ->
              LET package_id == Get(provider_data, "package_id", "")
                  bundle_name == IF package_id = "" THEN matched ELSE package_id
              IN IF bundle_name = ""
                 THEN NotInvoked("Could not find matching bundle for plan")
                 ELSE Invoked("travelroam_process_order", bundle_name, 0, api_ok,
                              "Failed to process TravelRoam order")
         [] order.provider = "AIRHUB" ->
              Invoked("airhub_renew_plan", order.provider_order_id,
                      Get(provider_data, "renewal_days", 7), api_ok,
                      "Failed to renew AirHub plan")
         [] order.provider = "ESIMCARD" ->
              Invoked("esimcard_purchase_package", Get(provider_data, "package_id", ""), 0,
                      api_ok, "Failed to purchase eSIMCard package")
         [] OTHER -> NotInvoked("Unknown provider")

(***************************************************************************)
(* verify_checkout_and_complete_order, step 2                              *)
(***************************************************************************)
\* Line 260: step 2 runs only for an order object in PAID.
Step2Runs(order) == order.status = "PAID"

\* Line 263: the provider call inside the fulfilment transaction.  The call
\* is an effect outside the store: a rollback does not undo it.
ProviderCall(c) ==
    /\ pc[c] = "fulfil"
    /\ IF ~Step2Runs(memOrder[c])
       THEN /\ pc' = [pc EXCEPT ![c] = "refresh"]
            /\ UNCHANGED <<fulfilCalls, lastCall, pending, info>>
       ELSE \E matched \in MatcherResults, api_ok \in BOOLEAN :
              LET r == ProcessWithProvider(memOrder[c], matched, api_ok)
                  o == memOrder[c].order_id
                  n == IF r.op = "none" THEN 0 ELSE 1
              IN /\ fulfilCalls' = [fulfilCalls EXCEPT ![o] = @ + n]
                 /\ lastCall' = IF n = 1
                                THEN [lastCall EXCEPT ![o] = [op |-> r.op, a1 |-> r.a1, a2 |-> r.a2]]
                                ELSE lastCall
                 /\ pending' = [pending EXCEPT ![c] = r]
                 /\ info' = [info EXCEPT ![c].fulfil_calls = @ + n,
                                         ![c].provider = IF r.ok THEN "returned" ELSE "raised"]
                 /\ pc' = [pc EXCEPT ![c] = IF r.ok THEN "commit" ELSE "handle"]
    /\ UNCHANGED <<storeVars, gateway, refundCalls, confirms, sess, memOrder, memPayment,
                   reqVars, coordVars, fnVars>>

\* Lines 265-268.
CompletedOrder(order, provider_response) ==
    [order EXCEPT !.status = "COMPLETED", !.provider_response = provider_response,
                  !.completed_at = TRUE]

\* Lines 270-272.
SucceededPayment(payment) ==
    [payment EXCEPT !.status = "SUCCEEDED", !.completed_at = TRUE]

\* Mutant: payment.save() is left out of the fulfilment transaction.
FulfilmentCommit_OrderOnly(c) ==
    <<SaveOrder(orderRow, CompletedOrder(memOrder[c], pending[c].response)), payRow>>

\* The tables after the fulfilment transaction commits: both saves or none.
FulfilmentCommit(c) ==
    <<SaveOrder(orderRow, CompletedOrder(memOrder[c], pending[c].response)),
      SavePayment(payRow, sess[c], SucceededPayment(memPayment[c]))>>

\* Lines 265-274: the provider returned, the fulfilment transaction commits.
CommitCompleted(c) ==
    /\ pc[c] = "commit"
    /\ memOrder' = [memOrder EXCEPT ![c] = CompletedOrder(@, pending[c].response)]
    /\ memPayment' = [memPayment EXCEPT ![c] = SucceededPayment(@)]
    /\ orderRow' = FulfilmentCommit(c)[1]
    /\ payRow' = FulfilmentCommit(c)[2]
    /\ pc' = [pc EXCEPT ![c] = "refresh"]
    /\ UNCHANGED <<envVars, confirms, sess, pending, info, reqVars, coordVars, fnVars>>

\* Mutant: the failure is recorded without the payment_successful flag.
ProviderFailedOrder_NoFlag(row, error) ==
    [row EXCEPT !.status = "PROVIDER_FAILED", !.provider_response = [error |-> error]]

\* Lines 282-283: the refreshed order, marked as failed at the provider.
ProviderFailedOrder(row, error) ==
    [row EXCEPT !.status = "PROVIDER_FAILED",
                !.provider_response = [error |-> error, payment_successful |-> TRUE]]

\* Refund operations of the gateway invoked by the except branch: none.
RefundsOnFailure == 0

\* Lines 276-281: the fulfilment transaction rolled back; the except branch
\* opens a transaction of its own and reloads the order (refresh_from_db).
\* The transaction takes no row lock.
HandleFailure(c) ==
    /\ pc[c] = "handle"
    /\ memOrder' = [memOrder EXCEPT ![c] = orderRow[memOrder[c].order_id]]
    /\ pc' = [pc EXCEPT ![c] = "save"]
    /\ UNCHANGED <<storeVars, envVars, confirms, sess, memPayment, pending, info,
                   reqVars, coordVars, fnVars>>

\* Lines 282-288: the reloaded object is marked and saved whole; the except
\* branch does not raise.
SaveFailure(c) ==
    /\ pc[c] = "save"
    /\ LET order == ProviderFailedOrder(memOrder[c], pending[c].error)
       IN /\ memOrder' = [memOrder EXCEPT ![c] = order]
          /\ orderRow' = SaveOrder(orderRow, order)
    /\ refundCalls' = refundCalls + RefundsOnFailure
    /\ pc' = [pc EXCEPT ![c] = "refresh"]
    /\ UNCHANGED <<payRow, gateway, fulfilCalls, lastCall, confirms, sess, memPayment,
                   pending, info, reqVars, coordVars, fnVars>>

\* Lines 290-292: order.refresh_from_db(); return order.
ReturnOrder(c) ==
    /\ pc[c] = "refresh"
    /\ memOrder' = [memOrder EXCEPT ![c] = orderRow[memOrder[c].order_id]]
    /\ pc' = [pc EXCEPT ![c] = "returned"]
    /\ UNCHANGED <<storeVars, envVars, confirms, sess, memPayment, pending, info,
                   reqVars, coordVars, fnVars>>

\* The process dies inside a call: what was not committed is lost.
Crash(c) ==
    /\ InFlight(c)
    /\ pc' = [pc EXCEPT ![c] = "crashed"]
    /\ info' = [info EXCEPT ![c].crash_at = pc[c]]
    /\ UNCHANGED <<storeVars, envVars, confirms, sess, memOrder, memPayment, pending,
                   reqVars, coordVars, fnVars>>

\* The process dies inside process_payment, after the checkout session was
\* created and before the PaymentTransaction is inserted, or inside an
\* e-mail function before its save.
CrashRequest ==
    /\ \/ /\ payCall.pc = "insert"
          /\ payCall' = NoPayCall("crashed")
          /\ UNCHANGED mailCall
       \/ /\ mailCall.pc = "send"
          /\ mailCall' = [pc |-> "idle", order |-> NullOrder]
          /\ UNCHANGED payCall
    /\ UNCHANGED <<storeVars, envVars, callVars, created, coordVars, fnVars>>

\* The operations of the service, one call at a time; a call may die at
\* any of its steps.
Next ==
    \/ CreateOrder
    \/ InitiatePayment
    \/ InsertPayment
    \/ CustomerPays
    \/ Quiet /\ \E o \in OrderIds : SendEmailLoad(o)
    \/ \E sent \in BOOLEAN : SendEmailSave(sent)
    \/ Quiet /\ \E c \in SeqCallers, s \in SessionIds : Begin(c, s)
    \/ \E c \in SeqCallers : LoadOrder(c)
    \/ \E c \in SeqCallers, retrieved \in BOOLEAN : VerifyPayment(c, retrieved)
    \/ \E c \in SeqCallers : ProviderCall(c)
    \/ \E c \in SeqCallers : CommitCompleted(c)
    \/ \E c \in SeqCallers : HandleFailure(c)
    \/ \E c \in SeqCallers : SaveFailure(c)
    \/ \E c \in SeqCallers : ReturnOrder(c)
    \/ \E c \in SeqCallers : Crash(c)
    \/ CrashRequest

Spec == Init /\ [][Next]_vars

(***************************************************************************)
(* The HTTP surface (pulse/views.py): the create_renewal_order view        *)
(* creates the order and calls process_payment once with the object it got; *)
(* confirm_payment may be posted any number of times with any session id;   *)
(* send_esim_email may be posted for an order whose id the create view has  *)
(* returned or logged.  One request at a time, every request runs to its    *)
(* end.                                                                     *)
(***************************************************************************)
\* CreateRenewalOrderSerializer.provider: the three PROVIDER_CHOICES.
SerializerProviders == {"AIRHUB", "ESIMCARD", "TRAVELROAM"}

\* views.py lines 235-245.
CreateOrderApi ==
    \E provider \in SerializerProviders, order_sim_id \in {"", "A1"},
       package_id \in {"", "pkg"}, renewal_days \in {0, 30} :
        create_renewal_order(provider, order_sim_id, "plan", package_id, renewal_days, "")

\* views.py lines 248-251: process_payment(order) with the object just created.
InitiatePaymentOnce ==
    \E o \in DOMAIN orderRow, checkout_ok \in BOOLEAN :
        /\ payCall.pc = "idle"
        /\ process_payment(created[o], TRUE, checkout_ok)

\* views.py lines 307-347.
SendEmailApi ==
    /\ payCall.pc \in {"returned", "raised"}
    /\ \E o \in OrderIds : SendEmailLoad(o)

NextApi ==
    \/ Quiet /\ CreateOrderApi
    \/ Quiet /\ InitiatePaymentOnce
    \/ InsertPayment
    \/ CustomerPays
    \/ Quiet /\ SendEmailApi
    \/ \E sent \in BOOLEAN : SendEmailSave(sent)
    \/ Quiet /\ \E c \in SeqCallers, s \in SessionIds : Begin(c, s)
    \/ \E c \in SeqCallers : LoadOrder(c)
    \/ \E c \in SeqCallers, retrieved \in BOOLEAN : VerifyPayment(c, retrieved)
    \/ \E c \in SeqCallers : ProviderCall(c)
    \/ \E c \in SeqCallers : CommitCompleted(c)
    \/ \E c \in SeqCallers : HandleFailure(c)
    \/ \E c \in SeqCallers : SaveFailure(c)
    \/ \E c \in SeqCallers : ReturnOrder(c)

SpecApi == Init /\ [][NextApi]_vars

(***************************************************************************)
(* Properties of the renewal order state machine.                          *)
(***************************************************************************)
\* The call of caller c found the payment paid and its provider step raised.
PartialFailure(c) == info[c].gateway = "paid" /\ info[c].provider = "raised"

\* The context the except branch records for the failure of caller c.
FailureContext(c) == [error |-> pending[c].error, payment_successful |-> TRUE]

\* C1: when the gateway says paid and the provider step raises, the call does
\* not raise: it records PROVIDER_FAILED with the failure text and
\* payment_successful = true in the stored order, and returns that order.
C1_PartialFailureRecorded ==
    \A c \in Callers :
        PartialFailure(c) =>
            /\ pc[c] # "raised"
            /\ pending[c].error # ""
            /\ pc[c] = "refresh" =>
                /\ orderRow[memOrder[c].order_id].status = "PROVIDER_FAILED"
                /\ orderRow[memOrder[c].order_id].provider_response = FailureContext(c)
            /\ pc[c] = "returned" =>
                /\ memOrder[c].status = "PROVIDER_FAILED"
                /\ memOrder[c].provider_response = FailureContext(c)

C1_Witness ==
    \E c \in Callers :
        PartialFailure(c) /\ pc[c] = "returned" /\ memOrder[c].status = "PROVIDER_FAILED"

\* C2: after a call in which the payment was paid and the provider step
\* raised, the PaymentTransaction is Succeeded and no refund was invoked.
C2_PaymentSucceededNoRefund ==
    \A c \in Callers :
        (PartialFailure(c) /\ pc[c] = "returned") =>
            /\ payRow[sess[c]].status = "SUCCEEDED"
            /\ refundCalls = 0

\* C3: when the gateway reports a status other than paid, the stored order
\* is FAILED after the call.
C3_NotPaidStoredFailed ==
    \A c \in Callers :
        (pc[c] = "raised" /\ info[c].gateway \in GatewayStatuses \ {"paid"}) =>
            orderRow[memOrder[c].order_id].status = "FAILED"

\* C4: a provider fulfilment operation is invoked for an order only while its
\* stored status is PAID, committed by step 1 of the same call on a paid
\* session; a call that raises (not paid, retrieval failed, no such payment)
\* has invoked no fulfilment operation.
C4_FulfilOnlyAfterPaid ==
    [][\A c \in Callers :
        /\ info'[c].fulfil_calls > info[c].fulfil_calls =>
            /\ pc[c] = "fulfil"
            /\ info[c].paid_committed
            /\ info[c].gateway = "paid"
            /\ orderRow[memOrder[c].order_id].status = "PAID"
            /\ fulfilCalls'[memOrder[c].order_id] = fulfilCalls[memOrder[c].order_id] + 1
        /\ pc'[c] = "raised" => info'[c].fulfil_calls = 0
        /\ (\A o \in OrderIds : fulfilCalls'[o] # fulfilCalls[o] =>
                \E d \in Callers : info'[d].fulfil_calls > info[d].fulfil_calls)]_vars

C4_Witness ==
    \E c \in Callers :
        /\ info[c].fulfil_calls = 1
        /\ pc[c] \in {"commit", "handle"}
        /\ fulfilCalls[memOrder[c].order_id] >= 1

\* C5: PAID is committed before fulfilment starts: a crash after step 1 and
\* before or during the fulfilment step, or a rollback of the fulfilment
\* transaction, leaves the stored order in PAID or PROVIDER_FAILED.
C5_PaidDurable ==
    [][\A c \in Callers :
        /\ (pc[c] \in {"fulfil", "commit", "handle", "save"} /\ pc'[c] = "crashed") =>
                orderRow'[memOrder[c].order_id].status \in {"PAID", "PROVIDER_FAILED"}
        /\ (pc[c] = "fulfil" /\ pc'[c] = "handle") =>
                orderRow'[memOrder[c].order_id].status = "PAID"
        /\ (pc[c] = "handle" /\ pc'[c] = "save") =>
                orderRow'[memOrder[c].order_id].status = "PAID"
        /\ (pc[c] = "save" /\ pc'[c] = "refresh") =>
                orderRow'[memOrder[c].order_id].status = "PROVIDER_FAILED"]_vars

C5_Witness ==
    \E c \in Callers :
        /\ pc[c] = "crashed"
        /\ info[c].crash_at \in {"fulfil", "commit", "handle"}
        /\ orderRow[memOrder[c].order_id].status = "PAID"

\* The edges of the state machine of spec section 4.6.
AllowedEdges ==
    {<<"PENDING", "PAID">>, <<"PAID", "COMPLETED">>, <<"PENDING", "FAILED">>,
     <<"PAID", "PROVIDER_FAILED">>}

\* C6: the stored status of an order changes only along PENDING->PAID,
\* PAID->COMPLETED, PENDING->FAILED and PAID->PROVIDER_FAILED.
C6_OnlyAllowedEdges ==
    [][\A o \in DOMAIN orderRow :
        orderRow'[o].status # orderRow[o].status =>
            <<orderRow[o].status, orderRow'[o].status>> \in AllowedEdges]_vars

\* C7: over any sequence of confirmPayment calls, the provider fulfilment
\* operation is invoked at most once for an order.
C7_FulfilAtMostOnce == \A o \in OrderIds : fulfilCalls[o] <= 1

\* The PaymentTransaction rows of order o.
PaymentsOf(o) == {s \in DOMAIN payRow : payRow[s].renewal_order = o}

\* C8: when the gateway says paid and the provider call returns, the order
\* ends COMPLETED with completed_at set and its PaymentTransaction SUCCEEDED,
\* and the call returns that order; the three are written by one
\* transaction: every step that stores COMPLETED, sets the completed
\* timestamp of the order or of the payment, or stores SUCCEEDED, stores all
\* of them.
C8_CompletedAtomically ==
    [][/\ \A c \in Callers :
            (info[c].gateway = "paid" /\ info[c].provider = "returned") =>
                /\ (pc[c] = "commit" /\ pc'[c] = "refresh") =>
                    /\ orderRow'[memOrder[c].order_id].status = "COMPLETED"
                    /\ orderRow'[memOrder[c].order_id].completed_at
                    /\ payRow'[sess[c]].status = "SUCCEEDED"
                /\ (pc[c] = "refresh" /\ pc'[c] = "returned") =>
                    /\ memOrder'[c].status = "COMPLETED"
                    /\ memOrder'[c].completed_at
                    /\ payRow'[sess[c]].status = "SUCCEEDED"
       /\ \A o \in DOMAIN orderRow :
            LET Completes == orderRow'[o].status = "COMPLETED" /\ orderRow[o].status # "COMPLETED"
                Stamps == orderRow'[o].completed_at /\ ~orderRow[o].completed_at
                Succeeds == \E s \in PaymentsOf(o) :
                               \/ payRow'[s].status = "SUCCEEDED" /\ payRow[s].status # "SUCCEEDED"
                               \/ payRow'[s].completed_at /\ ~payRow[s].completed_at
            IN (Completes \/ Stamps \/ Succeeds) =>
                  /\ orderRow'[o].status = "COMPLETED"
                  /\ orderRow'[o].completed_at
                  /\ \E s \in PaymentsOf(o) :
                        payRow'[s].status = "SUCCEEDED" /\ payRow'[s].completed_at
      ]_vars

C8_Witness ==
    \E c \in Callers :
        /\ pc[c] = "returned"
        /\ info[c].provider = "returned"
        /\ memOrder[c].status = "COMPLETED"
        /\ payRow[sess[c]].status = "SUCCEEDED"

\* C9: process_payment leaves the stored status of the order unchanged for
\* every outcome of the checkout creation and of the PaymentTransaction
\* insert, a gateway error and a second call for the same order included.
C9_StatusUnchanged ==
    [][(InitiatePayment \/ InsertPayment) =>
        \A o \in DOMAIN orderRow : orderRow'[o].status = orderRow[o].status]_vars

(***************************************************************************)
(* The parallel coordinator (script_optimized.py).                         *)
(***************************************************************************)
\* What a call to a provider API may raise: AuthenticationError, APIError
\* (network, HTTP), or any other exception.
Failures == {"AuthenticationError", "APIError", "Exception"}
Calls == {"ok"} \cup Failures

\* What the AirHub lookup calls do, in call order; a call after a failure or
\* after a miss is not made ("skipped").
AirhubLookups ==
    {r \in [made : {TRUE}, login : Calls, orders : Calls \cup {"skipped"},
            order : {"ah_order", "None", "skipped"},
            activation : {"ah_activation", "None", "skipped"} \cup Failures] :
        /\ (r.login # "ok") <=> (r.orders = "skipped")
        /\ (r.orders # "ok") <=> (r.order = "skipped")
        /\ (r.order # "ah_order") <=> (r.activation = "skipped")}

EsimcardLookups ==
    {r \in [made : {TRUE}, login : Calls,
            data : {"ec_data", "None", "skipped"} \cup Failures] :
        (r.login # "ok") <=> (r.data = "skipped")}

\* travelroam_get_location returns {} on a request error.
TravelroamLookups ==
    {r \in [made : {TRUE}, details : {"tr_details", "{}"} \cup Failures,
            bundles : {"tr_bundles", "skipped"} \cup Failures,
            location : {"tr_location", "{}", "skipped"}] :
        /\ (r.details \in Failures) <=> (r.bundles = "skipped")
        /\ (r.bundles \notin {"tr_bundles"}) <=> (r.location = "skipped")}

LookupsOf(p) ==
    CASE p = "airhub" -> AirhubLookups
      [] p = "esimcard" -> EsimcardLookups
      [] p = "travelroam" -> TravelroamLookups

\* check_airhub_provider: the tuple returned for the lookup outcome l.
check_airhub_provider(l) ==
    IF l.login \in Failures \/ l.orders \in Failures \/ l.activation \in Failures
    THEN <<"None", "None", "None">>
    ELSE IF l.order # "None"
         THEN <<"AIRHUB", l.order, l.activation>>
         ELSE <<"None", "None", "None">>

\* check_esimcard_provider
check_esimcard_provider(l) ==
    IF l.login \in Failures \/ l.data \in Failures
    THEN <<"None", "None", "None", "None">>
    ELSE IF l.data # "None"
         THEN <<"ESIMCARD", "ec_result", l.data, "ec_usage">>
         ELSE <<"None", "None", "None", "None">>

\* check_travelroam_provider
check_travelroam_provider(l) ==
    IF l.details \in Failures \/ l.bundles \in Failures
    THEN <<"None", "None", "None", "None">>
    ELSE IF l.details # "{}"
         THEN <<"TRAVELROAM", l.details, l.bundles, l.location>>
         ELSE <<"None", "None", "None", "None">>

CheckProvider(p, l) ==
    CASE p = "airhub" -> check_airhub_provider(l)
      [] p = "esimcard" -> check_esimcard_provider(l)
      [] p = "travelroam" -> check_travelroam_provider(l)

\* Lines 107-117: the three checks are submitted to the pool of three workers.
Submit ==
    /\ cpc = "start"
    /\ wstate' = [p \in ProviderNames |-> "running"]
    /\ cpc' = "collect"
    /\ UNCHANGED <<lookup, wret, results, found_provider, cidx, timedOut, cout, renewalVars, fnVars>>

\* Mutant: the worker thread marks its own slot of the results map.
WorkerRun_FillsSlot(p) ==
    /\ wstate[p] = "running"
    /\ \E l \in LookupsOf(p) :
        /\ lookup' = [lookup EXCEPT ![p] = l]
        /\ wret' = [wret EXCEPT ![p] = CheckProvider(p, l)]
        /\ results' = [results EXCEPT ![p].found = CheckProvider(p, l)[1] # "None"]
    /\ wstate' = [wstate EXCEPT ![p] = "done"]
    /\ UNCHANGED <<found_provider, cpc, cidx, timedOut, cout, renewalVars, fnVars>>

\* A worker thread runs its check to the end.
WorkerRun(p) ==
    /\ wstate[p] = "running"
    /\ \E l \in LookupsOf(p) :
        /\ lookup' = [lookup EXCEPT ![p] = l]
        /\ wret' = [wret EXCEPT ![p] = CheckProvider(p, l)]
    /\ wstate' = [wstate EXCEPT ![p] = "done"]
    /\ UNCHANGED <<results, found_provider, cpc, cidx, timedOut, cout, renewalVars, fnVars>>

Worker == \E p \in ProviderNames : WorkerRun(p)

\* Lines 125-141: the slot of provider p after its result tuple r.
SlotAfter(p, slot, r) ==
    IF r[1] = "None"
    THEN slot
    ELSE CASE p = "airhub" -> [found |-> TRUE, order |-> r[2], activation |-> r[3]]
           [] p = "esimcard" -> [found |-> TRUE, esim |-> r[2], details |-> r[3], usage |-> r[4]]
           [] p = "travelroam" -> [found |-> TRUE, data |-> r[2], bundles |-> r[3], location |-> r[4]]

\* Mutant: the first found provider is kept as found_provider.
FoundAfter_FirstWins(found, r) == IF found = "None" THEN r[1] ELSE found

\* Mutant: found_provider is assigned outside the "if provider" test.
FoundAfter_Unconditional(found, r) == r[1]

\* Lines 127-129, 133-135, 139-141: found_provider after a result tuple.
FoundAfter(found, r) == IF r[1] = "None" THEN found ELSE r[1]

\* The loop moves on to the next future, or leaves the with block.
Advance ==
    IF cidx < Len(FutureOrder)
    THEN cidx' = cidx + 1 /\ cpc' = "collect"
    ELSE cidx' = cidx /\ cpc' = "shutdown"

\* Lines 121-141: future.result(timeout=90) returns the worker's tuple.
Collect ==
    /\ cpc = "collect"
    /\ LET p == FutureOrder[cidx]
       IN /\ wstate[p] = "done"
          /\ results' = [results EXCEPT ![p] = SlotAfter(p, @, wret[p])]
          /\ found_provider' = FoundAfter(found_provider, wret[p])
    /\ Advance
    /\ UNCHANGED <<lookup, wstate, wret, timedOut, cout, renewalVars, fnVars>>

\* Lines 143-144: future.result(timeout=90) raises TimeoutError, which the
\* loop logs.
Timeout ==
    /\ cpc = "collect"
    /\ LET p == FutureOrder[cidx]
       IN /\ wstate[p] = "running"
          /\ timedOut' = [timedOut EXCEPT ![p] = TRUE]
    /\ Advance
    /\ UNCHANGED <<lookup, wstate, wret, results, found_provider, cout, renewalVars, fnVars>>

\* Lines 147-172: what the call returns, or the OrderNotFoundError it raises.
Outcome(found, res) ==
    IF found = "None"
    THEN [kind |-> "OrderNotFoundError"]
    ELSE [kind |-> "returned",
          value |-> <<found, res.airhub.order, res.airhub.activation, res.esimcard.esim,
                      res.esimcard.usage, res.travelroam.data, res.travelroam.bundles,
                      res.travelroam.location>>]

\* Leaving the with block (executor.shutdown(wait=True)) waits for every
\* worker; then lines 147-172.
Finish ==
    /\ cpc = "shutdown"
    /\ \A p \in ProviderNames : wstate[p] = "done"
    /\ cout' = Outcome(found_provider, results)
    /\ cpc' = "done"
    /\ UNCHANGED <<lookup, wstate, wret, results, found_provider, cidx, timedOut, renewalVars, fnVars>>

NextCoord ==
    \/ Submit
    \/ Worker
    \/ Collect
    \/ Timeout
    \/ Finish

SpecCoord == Init /\ [][NextCoord]_vars

(***************************************************************************)
(* Properties of the parallel coordinator.                                 *)
(***************************************************************************)
\* A lookup call of provider p raised.
LookupRaised(p) ==
    /\ lookup[p].made
    /\ \E f \in DOMAIN lookup[p] : f # "made" /\ lookup[p][f] \in Failures

\* Provider p's lookup ran without raising and found the ICCID.
LookupFound(p) ==
    /\ lookup[p].made
    /\ ~LookupRaised(p)
    /\ CASE p = "airhub" -> lookup[p].order = "ah_order"
         [] p = "esimcard" -> lookup[p].data = "ec_data"
         [] p = "travelroam" -> lookup[p].details = "tr_details"

\* The slot a provider's successful lookup fills.
FoundSlot(p) ==
    CASE p = "airhub" ->
            [found |-> TRUE, order |-> "ah_order", activation |-> lookup[p].activation]
      [] p = "esimcard" ->
            [found |-> TRUE, esim |-> "ec_result", details |-> "ec_data", usage |-> "ec_usage"]
      [] p = "travelroam" ->
            [found |-> TRUE, data |-> "tr_details", bundles |-> "tr_bundles",
             location |-> lookup[p].location]

\* The providers whose result the coordinator took.
Taken == {p \in ProviderNames : LookupFound(p) /\ ~timedOut[p]}

\* C10: whatever subset of the provider lookups raises, the coordinator does
\* not raise because of it: the slot of a provider that raised (or missed) is
\* absent, the slot of each provider that succeeded and found the ICCID holds
\* that provider's data, and when there is such a provider the call returns
\* these slots.
C10_FaultIsolation ==
    cpc = "done" =>
        /\ \A p \in ProviderNames :
            results[p] = IF p \in Taken THEN FoundSlot(p) ELSE InitialResults[p]
        /\ Taken # {} =>
            /\ cout.kind = "returned"
            /\ cout.value[1] \in {"AIRHUB", "ESIMCARD", "TRAVELROAM"}
            /\ <<cout.value[2], cout.value[3]>> =
                    <<results.airhub.order, results.airhub.activation>>
            /\ <<cout.value[4], cout.value[5]>> =
                    <<results.esimcard.esim, results.esimcard.usage>>
            /\ <<cout.value[6], cout.value[7], cout.value[8]>> =
                    <<results.travelroam.data, results.travelroam.bundles,
                      results.travelroam.location>>

\* The inventory provider's lookup fails to authenticate, the other two
\* succeed, and the call returns their data.
C10_Witness ==
    /\ cpc = "done"
    /\ lookup["esimcard"].made /\ lookup["esimcard"].login = "AuthenticationError"
    /\ Taken = {"airhub", "travelroam"}
    /\ cout.kind = "returned"
    /\ ~results.esimcard.found

(***************************************************************************)
(* calculate_data_completeness (script_enhanced.py).                       *)
(***************************************************************************)
\* Sample usage strings; "None" stands for Python's None.
UsageValues ==
    {"None", "", "N/A", "0", "0.0", "0 GB", "0 MB", " 0 GB ", "  ", "0.00", "1.5 GB", "2.50"}

StatusValues ==
    {"None", "", "Active", "ACTIVE", "enabled", "Installed", "Inactive", "Released", "Unknown"}

\* str.strip() on the sample strings.
Strip(s) ==
    CASE s = " 0 GB " -> "0 GB"
      [] s = "  " -> ""
      [] OTHER -> s

\* str.lower() on the sample strings.
Lower(s) ==
    CASE s = "Active" -> "active"
      [] s = "ACTIVE" -> "active"
      [] s = "Installed" -> "installed"
      [] s = "Inactive" -> "inactive"
      [] s = "Released" -> "released"
      [] s = "Unknown" -> "unknown"
      [] OTHER -> s

\* Python truth value of a string or None.
Truthy(s) == s \notin {"None", ""}

\* The literal list of lines 1164 and 1167.
PlaceholderUsage == {"", "0", "0.0", "0 GB", "0 MB"}

\* The condition of lines 1164 and 1167.
HasUsage(v) == Truthy(v) /\ v # "N/A" /\ Strip(v) \notin PlaceholderUsage

\* Mutant: only the consumed value earns points.
calculate_data_completeness_ConsumedOnly(data_consumed, data_remaining, status) ==
    (IF HasUsage(data_consumed) THEN 50 ELSE 0)
    + (IF data_consumed # "None" \/ data_remaining # "None" THEN 30 ELSE 0)
    + (IF Truthy(status) /\ Lower(status) \in {"active", "enabled", "installed"}
       THEN 20 ELSE 0)

calculate_data_completeness(data_consumed, data_remaining, status) ==
    (IF HasUsage(data_consumed) THEN 50 ELSE 0)
    + (IF HasUsage(data_remaining) THEN 50 ELSE 0)
    + (IF data_consumed # "None" \/ data_remaining # "None" THEN 30 ELSE 0)
    + (IF Truthy(status) /\ Lower(status) \in {"active", "enabled", "installed"}
       THEN 20 ELSE 0)

\* One evaluation of the scorer.
ScoreCall ==
    /\ fn = "none"
    /\ \E data_consumed \in UsageValues, data_remaining \in UsageValues,
          status \in StatusValues :
        /\ fn' = "calculate_data_completeness"
        /\ fnIn' = <<data_consumed, data_remaining, status>>
        /\ fnOut' = calculate_data_completeness(data_consumed, data_remaining, status)
    /\ UNCHANGED <<renewalVars, coordVars>>

NextScore == ScoreCall

SpecScore == Init /\ [][NextScore]_vars

\* Usage values that carry a real quantity.
RealUsage == {v \in UsageValues : HasUsage(v)}

\* C13: the score is within 0..150, and replacing a zero-like placeholder
\* usage value by a real one, the other two inputs fixed, strictly
\* increases it.
C13_ScoreRangeAndMonotone ==
    fn = "calculate_data_completeness" =>
        /\ fnOut \in 0..150
        /\ \A v \in RealUsage :
            /\ fnIn[1] \in PlaceholderUsage =>
                    calculate_data_completeness(v, fnIn[2], fnIn[3]) > fnOut
            /\ fnIn[2] \in PlaceholderUsage =>
                    calculate_data_completeness(fnIn[1], v, fnIn[3]) > fnOut

\* A record with a zero-like consumed value and a real remaining value.
C13_Witness ==
    /\ fn = "calculate_data_completeness"
    /\ fnIn = <<"0 GB", "1.5 GB", "Active">>
    /\ fnOut = 100

(***************************************************************************)
(* The primary provider and the completeness scores.                       *)
(***************************************************************************)
\* What the coordinator of script_enhanced.py feeds to the scorer for the
\* record each provider returns in this model: an AirHub order with both
\* usage fields and isActive set (lines 1218-1222), an eSIMCard record whose
\* usage has no quantities (lines 1262-1278), a TravelRoam profile without a
\* data assignment (lines 1304-1326).
ScorerInput(p) ==
    CASE p = "airhub" -> <<"1.5 GB", "2.50", "Active">>
      [] p = "esimcard" -> <<"N/A", "N/A", "Active">>
      [] p = "travelroam" -> <<"N/A", "N/A", "Installed">>

RecordScore(p) ==
    calculate_data_completeness(ScorerInput(p)[1], ScorerInput(p)[2], ScorerInput(p)[3])

\* APIProvider member of a results key.
ProviderEnum(p) ==
    CASE p = "airhub" -> "AIRHUB"
      [] p = "esimcard" -> "ESIMCARD"
      [] p = "travelroam" -> "TRAVELROAM"

\* Position of a provider in the fixed order AirHub, eSIMCard, TravelRoam.
OrderIndex(p) == CHOOSE i \in 1..Len(FutureOrder) : FutureOrder[i] = p

\* The found provider with the strictly highest score, the first in the
\* fixed order among equals.
HighestScoring(found) ==
    CHOOSE p \in found :
        \A q \in found :
            \/ RecordScore(q) < RecordScore(p)
            \/ RecordScore(q) = RecordScore(p) /\ OrderIndex(p) <= OrderIndex(q)

\* C12: the primary provider the parallel coordinator returns is the found
\* provider with the strictly highest completeness score, ties going to the
\* first found provider in the order AirHub, eSIMCard, TravelRoam.
C12_PrimaryIsHighestScore ==
    (cpc = "done" /\ cout.kind = "returned") =>
        cout.value[1] =
            ProviderEnum(HighestScoring({p \in ProviderNames : results[p].found}))

(***************************************************************************)
(* ESIMService._extract_esim_data (pulse/esim_service.py): the merge.      *)
(* Dicts are records, a missing key is a missing field, None is "None".    *)
(***************************************************************************)
\* None and the empty dict: both are false in `if order:`.
NoDict == <<>>

\* Python's `a or b` on strings.
Or(a, b) == IF Truthy(a) THEN a ELSE b

\* f"{x:.2f}" of a whole number.
Fmt2(n) == ToString(n) \o ".00"

\* Lines 100-113.
MergedInit ==
    [order_sim_id |-> "N/A", iccid |-> "N/A", plan_name |-> "N/A", status |-> "N/A",
     purchase_date |-> "N/A", validity |-> "N/A", data_capacity |-> "N/A",
     data_consumed |-> "N/A", data_remaining |-> "N/A", activation_code |-> "N/A",
     apn |-> "N/A"]

\* Lines 116-132: phase 1, the AirHub order.
MergeOrder(m, order) ==
    IF order = NoDict THEN m
    ELSE LET capacity == Get(order, "capacity", "None")
         IN [m EXCEPT
               !.order_sim_id = Get(order, "orderId", @),
               !.iccid = Or(Get(order, "simID", "None"),
                            Or(Get(order, "iccid", "None"),
                               Or(Get(order, "ICCID", "None"), @))),
               !.plan_name = Get(order, "planName", @),
               !.status = IF Get(order, "isActive", FALSE) THEN "Active" ELSE "Inactive",
               !.purchase_date = Get(order, "purchaseDate", @),
               !.validity = IF Truthy(Get(order, "vaildity", "None"))
                            THEN order.vaildity ELSE @,
               !.data_capacity = IF Truthy(capacity) /\ capacity # "N/A"
                                 THEN capacity \o " " \o Get(order, "capacityUnit", "GB")
                                 ELSE @,
               !.data_consumed = IF Truthy(Get(order, "dataConsumed", "None"))
                                 THEN order.dataConsumed ELSE @,
               !.data_remaining = IF Truthy(Get(order, "dataRemaining", "None"))
                                  THEN order.dataRemaining ELSE @]

\* Lines 134-138: the AirHub activation details.
MergeActivation(m, activation) ==
    IF activation = NoDict THEN m
    ELSE [m EXCEPT
            !.activation_code =
                IF Truthy(Get(activation, "activationCode", "None")) /\ @ = "N/A"
                THEN activation.activationCode ELSE @,
            !.apn = IF Truthy(Get(activation, "apn", "None")) /\ @ = "N/A"
                    THEN activation.apn ELSE @]

\* Lines 143-174: the eSIMCard sim fields.
MergeSim(m, sim_data) ==
    LET activation_code_esim ==
            Or(Get(sim_data, "qr_code_text", "None"),
               Or(Get(sim_data, "qr_code", "None"),
                  Or(Get(sim_data, "activation_code", "None"),
                     Get(sim_data, "lpa", "None"))))
    IN [m EXCEPT
          !.order_sim_id = IF @ = "N/A" THEN Get(sim_data, "id", @) ELSE @,
          !.iccid = IF @ = "N/A" THEN Get(sim_data, "iccid", @) ELSE @,
          !.plan_name = IF Truthy(Get(sim_data, "last_bundle", "None"))
                        THEN sim_data.last_bundle ELSE @,
          !.status = IF Truthy(Get(sim_data, "status", "None"))
                     THEN sim_data.status ELSE @,
          !.purchase_date = IF Truthy(Get(sim_data, "created_at", "None"))
                            THEN sim_data.created_at ELSE @,
          !.activation_code = IF Truthy(activation_code_esim) /\ @ = "N/A"
                              THEN activation_code_esim ELSE @,
          !.apn = IF Truthy(Get(sim_data, "apn", "None")) /\ @ = "N/A"
                  THEN sim_data.apn ELSE @]

\* The plan names of the sample records.
PlanNames == {"eSIM, 1GB, 7 Days, Turkey, V2", "Turkey 3GB 30Days", "Unlimited Holidays"}

\* re.search(r'(\d+)\s*Days?', plan_name, re.IGNORECASE).group(1) for a
\* plan name containing 'Days'; "" when 'Days' is not in it or nothing matches.
DaysInPlan(plan_name) ==
    CASE plan_name = "eSIM, 1GB, 7 Days, Turkey, V2" -> "7"
      [] plan_name = "Turkey 3GB 30Days" -> "30"
      [] OTHER -> ""

\* Lines 178-200: the first in-use package; quantities are whole numbers.
MergePackage(m, package) ==
    LET initial_data == Get(package, "initial_data_quantity", 0)
        remaining_data == Get(package, "rem_data_quantity", 0)
        data_unit == Get(package, "rem_data_unit", "GB")
    IN [m EXCEPT
          !.data_capacity =
              IF initial_data # 0
              THEN ToString(initial_data) \o " " \o Get(package, "initial_data_unit", "GB")
              ELSE @,
          !.validity = IF DaysInPlan(m.plan_name) # ""
                       THEN DaysInPlan(m.plan_name) \o " days" ELSE @,
          !.data_consumed = IF initial_data # 0
                            THEN Fmt2(initial_data - remaining_data) \o " " \o data_unit
                            ELSE @,
          !.data_remaining = IF initial_data # 0
                             THEN ToString(remaining_data) \o " " \o data_unit
                             ELSE @]

\* Lines 203-217: overall_usage, used when there is no in-use package.
MergeUsage(m, overall_usage) ==
    LET initial_data == Get(overall_usage, "initial_data_quantity", 0)
        remaining_data == Get(overall_usage, "rem_data_quantity", 0)
        data_unit == Get(overall_usage, "rem_data_unit", "GB")
    IN [m EXCEPT
          !.data_capacity = IF initial_data # 0
                            THEN ToString(initial_data) \o " " \o data_unit ELSE @,
          !.data_remaining = ToString(remaining_data) \o " " \o data_unit,
          !.data_consumed = IF initial_data # 0
                            THEN Fmt2(initial_data - remaining_data) \o " " \o data_unit
                            ELSE @]

\* Lines 141-217: phase 2, the eSIMCard record.
MergeEsimcard(m, esimcard_data) ==
    IF esimcard_data = NoDict THEN m
    ELSE LET sim_data == Get(esimcard_data, "esim", <<>>)
             in_use_packages == Get(esimcard_data, "packages", <<>>)
             overall_usage == Get(esimcard_data, "usage", <<>>)
             m1 == MergeSim(m, sim_data)
         IN IF in_use_packages # <<>>
            THEN MergePackage(m1, in_use_packages[1])
            ELSE IF overall_usage # <<>>
                 THEN MergeUsage(m1, overall_usage)
                 ELSE m1

TwoDigits(n) == IF n < 10 THEN "0" \o ToString(n) ELSE ToString(n)

\* datetime.fromtimestamp(ms / 1000).strftime('%Y-%m-%d %H:%M:%S') for a
\* timestamp within January 1970; the timestamp is counted here in hours
\* since the epoch, tz is the UTC offset of the server's local time zone in
\* hours.
FromTimestamp(hours, tz) ==
    "1970-01-" \o TwoDigits((hours + tz) \div 24 + 1) \o " "
        \o TwoDigits((hours + tz) % 24) \o ":00:00"

\* Lines 220-241: phase 3, the TravelRoam profile.
MergeTravelroam(m, travelroam_data, tz) ==
    IF travelroam_data = NoDict THEN m
    ELSE LET purchase_date_timestamp == Get(travelroam_data, "firstInstalledDateTime", 0)
         IN [m EXCEPT
               !.order_sim_id = IF @ = "N/A" THEN Get(travelroam_data, "matchingId", @) ELSE @,
               !.iccid = IF @ = "N/A" THEN Get(travelroam_data, "iccid", @) ELSE @,
               !.status = IF Truthy(Get(travelroam_data, "profileStatus", "None")) /\ @ = "N/A"
                          THEN travelroam_data.profileStatus ELSE @,
               !.activation_code =
                   IF Truthy(Get(travelroam_data, "smdpAddress", "None")) /\ @ = "N/A"
                   THEN travelroam_data.smdpAddress ELSE @,
               !.purchase_date = IF purchase_date_timestamp # 0 /\ @ = "N/A"
                                 THEN FromTimestamp(purchase_date_timestamp, tz) ELSE @]

\* The ISO time strings of the sample assignments and the day each denotes.
IsoTimes == {"2024-01-01T00:00:00Z", "2024-01-08T00:00:00Z"}

\* datetime.fromisoformat(s.replace('Z', '+00:00')), as a day number.
ParseDay(s) ==
    CASE s = "2024-01-01T00:00:00Z" -> 1
      [] s = "2024-01-08T00:00:00Z" -> 8

\* round(bytes * 100 / 1024 ** 3) as the format ":.2f" rounds it, for
\* 0 <= bytes < 2^31: the quotient bytes / 2^30 is exact in a float, and the
\* format rounds the exact value to the nearest hundredth, a tie to the even
\* one.  bytes = h * 2^20 + l keeps every product below 2^31.
Hundredths(bytes) ==
    LET h == bytes \div 1048576
        l == bytes % 1048576
        R == ((h * 100) % 1024) * 1048576 + l * 100
        q == (h * 100) \div 1024 + R \div 1073741824
        r == R % 1073741824
    IN CASE r > 536870912 -> q + 1
         [] r = 536870912 -> q + (q % 2)
         [] OTHER -> q

\* f"{bytes / (1024 ** 3):.2f}"; a negative quantity keeps its sign.
GB2f(bytes) ==
    IF bytes < 0
    THEN "-" \o ToString(Hundredths(0 - bytes) \div 100) \o "."
             \o TwoDigits(Hundredths(0 - bytes) % 100)
    ELSE ToString(Hundredths(bytes) \div 100) \o "." \o TwoDigits(Hundredths(bytes) % 100)

\* Index of the first assignment whose callTypeGroup.lower() is 'data'; 0
\* when there is none.
FirstData(assignments) ==
    IF \E i \in 1..Len(assignments) :
            Get(assignments[i], "callTypeGroup", "") \in {"data", "Data", "DATA"}
    THEN CHOOSE i \in 1..Len(assignments) :
            /\ Get(assignments[i], "callTypeGroup", "") \in {"data", "Data", "DATA"}
            /\ \A j \in 1..(i - 1) :
                    Get(assignments[j], "callTypeGroup", "") \notin {"data", "Data", "DATA"}
    ELSE 0

\* Mutant: a bundle ending at this very moment counts as expired.
BundleExpired_Inclusive(now, end_time) == now >= ParseDay(end_time)

\* Lines 281-282: now > end, in days.
BundleExpired(now, end_time) == now > ParseDay(end_time)

\* Lines 255-288: the data assignment of the first bundle.  A time string
\* that does not parse raises inside the try, which skips validity and expiry.
MergeAssignment(m, assignment, now) ==
    LET initial_bytes == Get(assignment, "initialQuantity", 0)
        remaining_bytes == Get(assignment, "remainingQuantity", 0)
        start_time == Get(assignment, "startTime", "")
        end_time == Get(assignment, "endTime", "")
        m1 == IF m.data_consumed = "N/A" \/ m.data_remaining = "N/A"
              THEN [m EXCEPT
                      !.data_capacity = GB2f(initial_bytes) \o " GB",
                      !.data_consumed = GB2f(initial_bytes - remaining_bytes) \o " GB",
                      !.data_remaining = GB2f(remaining_bytes) \o " GB"]
              ELSE m
    IN IF initial_bytes > 0
       THEN IF Truthy(start_time) /\ Truthy(end_time)
                /\ start_time \in IsoTimes /\ end_time \in IsoTimes
            THEN [m1 EXCEPT
                    !.validity =
                        IF @ = "N/A"
                        THEN ToString(ParseDay(end_time) - ParseDay(start_time)) \o " days"
                        ELSE @,
                    !.status = IF BundleExpired(now, end_time) THEN "Expired" ELSE @]
            ELSE m1
       ELSE m

\* Lines 243-288: the TravelRoam bundles.
MergeBundles(m, travelroam_bundles, now) ==
    IF travelroam_bundles = NoDict THEN m
    ELSE IF Get(travelroam_bundles, "bundles", <<>>) = <<>> THEN m
    ELSE LET first_bundle == travelroam_bundles.bundles[1]
             plan_name_tr == Or(Get(first_bundle, "description", "None"),
                                Get(first_bundle, "name", "None"))
             assignments == Get(first_bundle, "assignments", <<>>)
             m1 == [m EXCEPT !.plan_name = IF Truthy(plan_name_tr) /\ @ = "N/A"
                                           THEN plan_name_tr ELSE @]
         IN IF FirstData(assignments) = 0
            THEN m1
            ELSE MergeAssignment(m1, assignments[FirstData(assignments)], now)

\* Lines 290-298: the TravelRoam location.
MergeLocation(m, travelroam_location) ==
    IF travelroam_location = NoDict THEN m
    ELSE LET network_name == Get(travelroam_location, "networkName", "")
             country == Get(travelroam_location, "country", "")
             apn_from_location == IF Truthy(country)
                                  THEN network_name \o " (" \o country \o ")"
                                  ELSE network_name
         IN IF Truthy(network_name) /\ m.apn \in {"N/A", "internet", "wholesale"}
            THEN [m EXCEPT !.apn = apn_from_location]
            ELSE m

\* ESIMService._extract_esim_data; now is the clock read at line 281 and tz
\* the local time zone used at line 238.  The provider and usage_data
\* parameters are not read by the code.
extract_esim_data(order, activation, esimcard_data, travelroam_data, travelroam_bundles, travelroam_location, now, tz) ==
    MergeLocation(
        MergeBundles(
            MergeTravelroam(
                MergeEsimcard(MergeActivation(MergeOrder(MergedInit, order), activation),
                              esimcard_data),
                travelroam_data, tz),
            travelroam_bundles, now),
        travelroam_location)

(***************************************************************************)
(* Provider records the merge is applied to.                               *)
(***************************************************************************)
AirhubOrders ==
    {NoDict,
     [orderId |-> "A1", simID |-> "8991", planName |-> "eSIM, 1GB, 7 Days, Turkey, V2",
      isActive |-> TRUE, purchaseDate |-> "2024-01-01", vaildity |-> "7",
      capacity |-> "1", capacityUnit |-> "GB", dataConsumed |-> "0.4 GB",
      dataRemaining |-> "0.6 GB"],
     [orderId |-> "A2", iccid |-> "8991", isActive |-> FALSE, capacity |-> "N/A",
      dataConsumed |-> ""],
     [orderId |-> "A3", simID |-> "8991", isActive |-> TRUE, capacity |-> "5",
      capacityUnit |-> "GB", dataConsumed |-> "1.5 GB"]}

AirhubActivations == {NoDict, [activationCode |-> "LPA:1$airhub", apn |-> "internet"]}

EsimcardRecords ==
    {NoDict,
     [esim |-> [id |-> "77", iccid |-> "8991", last_bundle |-> "Turkey 3GB 30Days",
                status |-> "Active", created_at |-> "2024-02-01",
                qr_code_text |-> "LPA:1$esimcard", apn |-> "wholesale"],
      packages |-> <<[initial_data_quantity |-> 3, initial_data_unit |-> "GB",
                      rem_data_quantity |-> 1, rem_data_unit |-> "GB"]>>,
      usage |-> [initial_data_quantity |-> 3, rem_data_quantity |-> 1, rem_data_unit |-> "GB"]],
     [esim |-> [id |-> "78", status |-> "Released"],
      packages |-> <<>>,
      usage |-> [initial_data_quantity |-> 5, rem_data_quantity |-> 5, rem_data_unit |-> "MB"]]}

TravelroamProfiles ==
    {NoDict,
     [matchingId |-> "M-1", iccid |-> "8991", profileStatus |-> "Installed",
      smdpAddress |-> "rsp.example", firstInstalledDateTime |-> 46]}

\* Data assignments: with and without a positive initial quantity, a start
\* time, and an end time (missing, unparseable, or valid).
DataAssignments ==
    {[callTypeGroup |-> "Data", initialQuantity |-> q, remainingQuantity |-> q \div 2,
      startTime |-> s, endTime |-> e] :
        q \in {0, 1342177280}, s \in {"", "2024-01-01T00:00:00Z"},
        e \in {"", "not a date", "2024-01-08T00:00:00Z"}}

VoiceAssignment == [callTypeGroup |-> "Voice", initialQuantity |-> 100, remainingQuantity |-> 100]

TravelroamBundles ==
    {NoDict, [bundles |-> <<>>],
     [bundles |-> <<[name |-> "esim_1gb_7d_tr_u", assignments |-> <<VoiceAssignment>>]>>]}
    \cup {[bundles |-> <<[name |-> "esim_1gb_7d_tr_u", description |-> "eSIM, 1GB, 7 Days, Turkey, V2",
                          assignments |-> <<a>>]>>] : a \in DataAssignments}
    \cup {[bundles |-> <<[name |-> "esim_1gb_7d_tr_u",
                          assignments |-> <<VoiceAssignment, a>>]>>] :
                a \in {d \in DataAssignments : d.initialQuantity > 0 /\ d.startTime # ""
                                                 /\ d.endTime \in IsoTimes}}

TravelroamLocations ==
    {NoDict, [networkName |-> "Turkcell", country |-> "TR"],
     [networkName |-> "", networkBrandName |-> "Brand"]}

\* Clock readings (midnight of a day of January 2024) and local time zones (UTC offset, hours) of a run.
Clocks == {5, 8, 10}
TimeZones == {0, 3}

\* The service merges the same provider records twice, in two requests; the
\* clock and the server's time zone are whatever they are at each run.
MergeCall ==
    /\ fn = "none"
    /\ \E order \in AirhubOrders, activation \in AirhubActivations,
          esimcard_data \in EsimcardRecords, travelroam_data \in TravelroamProfiles,
          travelroam_bundles \in TravelroamBundles,
          travelroam_location \in TravelroamLocations,
          now \in Clocks \X Clocks, tz \in TimeZones \X TimeZones :
        /\ fn' = "_extract_esim_data"
        /\ fnIn' = [order |-> order, activation |-> activation,
                    esimcard_data |-> esimcard_data, travelroam_data |-> travelroam_data,
                    travelroam_bundles |-> travelroam_bundles,
                    travelroam_location |-> travelroam_location, now |-> now, tz |-> tz]
        /\ fnOut' = [i \in 1..2 |->
                        extract_esim_data(order, activation, esimcard_data, travelroam_data,
                                          travelroam_bundles, travelroam_location,
                                          now[i], tz[i])]
    /\ UNCHANGED <<renewalVars, coordVars>>

NextMerge == MergeCall

SpecMerge == Init /\ [][NextMerge]_vars

(***************************************************************************)
(* Properties of the merge.                                                *)
(***************************************************************************)
\* The data assignment of the bundle provider's first bundle, or NoDict.
DataAssignmentOf(travelroam_bundles) ==
    IF travelroam_bundles = NoDict THEN NoDict
    ELSE IF Get(travelroam_bundles, "bundles", <<>>) = <<>> THEN NoDict
    ELSE LET assignments == Get(travelroam_bundles.bundles[1], "assignments", <<>>)
         IN IF FirstData(assignments) = 0 THEN NoDict
            ELSE assignments[FirstData(assignments)]

\* The bundle provider's data assignment ended before the clock reading.
EndInPast(travelroam_bundles, now) ==
    LET a == DataAssignmentOf(travelroam_bundles)
    IN /\ a # NoDict
       /\ Get(a, "endTime", "") \in IsoTimes
       /\ now > ParseDay(a.endTime)

\* Records as a coordinator hands them over: some provider found the ICCID,
\* activation details only with an order, bundles and location only with a
\* TravelRoam profile.
CoordinatorShaped(in) ==
    /\ in.order # NoDict \/ in.esimcard_data # NoDict \/ in.travelroam_data # NoDict
    /\ in.activation # NoDict => in.order # NoDict
    /\ (in.travelroam_bundles # NoDict \/ in.travelroam_location # NoDict)
            => in.travelroam_data # NoDict

\* C14: whenever the bundle provider's data assignment has an end time in
\* the past, the merged status is "Expired", whatever the other providers
\* report and whether or not the assignment has a start time or a positive
\* initial quantity.
C14_ExpiredWhenEndPast ==
    (fn = "_extract_esim_data" /\ CoordinatorShaped(fnIn)) =>
        \A i \in 1..2 :
            EndInPast(fnIn.travelroam_bundles, fnIn.now[i]) => fnOut[i].status = "Expired"

\* display_esim_summary (script_enhanced.py lines 1417-1518): the
\* data_sources list it accumulates.
display_data_sources(order, esimcard_data, travelroam_data) ==
    (IF order # NoDict THEN <<"AirHub">> ELSE <<>>)
        \o (IF esimcard_data # NoDict THEN <<"eSIMCard">> ELSE <<>>)
        \o (IF travelroam_data # NoDict THEN <<"TravelRoam">> ELSE <<>>)

\* The providers whose record is part of the merge input, by display name,
\* in the fixed order.
ContributingProviders(in) ==
    (IF in.order # NoDict \/ in.activation # NoDict THEN <<"AirHub">> ELSE <<>>)
        \o (IF in.esimcard_data # NoDict THEN <<"eSIMCard">> ELSE <<>>)
        \o (IF in.travelroam_data # NoDict \/ in.travelroam_bundles # NoDict
                \/ in.travelroam_location # NoDict
            THEN <<"TravelRoam">> ELSE <<>>)

\* C15: the merged record the service returns carries dataSources, listing
\* exactly the providers that contributed, in the order AirHub, eSIMCard,
\* TravelRoam (one entry when one provider found the ICCID); the list of
\* display_esim_summary is the same.
C15_DataSourcesListed ==
    (fn = "_extract_esim_data" /\ CoordinatorShaped(fnIn)) =>
        /\ display_data_sources(fnIn.order, fnIn.esimcard_data, fnIn.travelroam_data)
                = ContributingProviders(fnIn)
        /\ \A i \in 1..2 :
            /\ "data_sources" \in DOMAIN fnOut[i]
            /\ fnOut[i].data_sources = ContributingProviders(fnIn)

\* C16 as stated: two runs of the merge on the same provider records give
\* identical merged records.
C16_SameRecordsSameMerge ==
    fn = "_extract_esim_data" => fnOut[1] = fnOut[2]

\* C16 as amended: two runs on the same provider records agree on every
\* field but status and purchase_date; the status differs only when the
\* clock crossed the bundle's end time between the runs (one run sets
\* "Expired"), and the purchase date only when the local time zone differs.
C16_DeterministicGivenClock ==
    fn = "_extract_esim_data" =>
        /\ \A f \in DOMAIN fnOut[1] \ {"status", "purchase_date"} :
                fnOut[1][f] = fnOut[2][f]
        /\ fnOut[1].status # fnOut[2].status =>
                /\ EndInPast(fnIn.travelroam_bundles, fnIn.now[1])
                        # EndInPast(fnIn.travelroam_bundles, fnIn.now[2])
                /\ "Expired" \in {fnOut[1].status, fnOut[2].status}
        /\ fnOut[1].purchase_date # fnOut[2].purchase_date => fnIn.tz[1] # fnIn.tz[2]
        /\ (fnIn.now[1] = fnIn.now[2] /\ fnIn.tz[1] = fnIn.tz[2]) => fnOut[1] = fnOut[2]

\* The same records merged before and after the bundle's end: "Active"
\* first, "Expired" later.
C16_Witness ==
    /\ fn = "_extract_esim_data"
    /\ fnIn.now = <<5, 10>>
    /\ fnOut[1].status = "Active"
    /\ fnOut[2].status = "Expired"

(***************************************************************************)
(* travelroam_find_matching_bundle (script_enhanced.py) and the string     *)
(* operations it uses.                                                     *)
(***************************************************************************)
\* str.lower()
RECURSIVE StrLower(_)
StrLower(s) ==
    LET upper == "ABCDEFGHIJKLMNOPQRSTUVWXYZ"
        lower == "abcdefghijklmnopqrstuvwxyz"
        c == SubSeq(s, 1, 1)
        at == {k \in 1..Len(upper) : SubSeq(upper, k, k) = c}
    IN IF s = "" THEN ""
       ELSE (IF at = {} THEN c ELSE LET k == CHOOSE k \in at : TRUE IN SubSeq(lower, k, k))
            \o StrLower(SubSeq(s, 2, Len(s)))

\* t in s
Contains(s, t) ==
    \E i \in 1..(Len(s) - Len(t) + 1) : SubSeq(s, i, i + Len(t) - 1) = t

\* re.search(r'(\d+)\s*<word>', s, re.IGNORECASE): group(1) of the leftmost
\* match, or "None".
NumberBefore(s, word) ==
    LET IsDigit(i) == SubSeq(s, i, i) \in {"0", "1", "2", "3", "4", "5", "6", "7", "8", "9"}
        \* last position of the run of digits that starts at i
        DigitRunEnd(i) ==
            CHOOSE j \in i..Len(s) :
                /\ \A k \in i..j : IsDigit(k)
                /\ j = Len(s) \/ ~IsDigit(j + 1)
        \* first position after j that holds no blank
        SkipSpace(j) ==
            CHOOSE k \in (j + 1)..(Len(s) + 1) :
                /\ \A l \in (j + 1)..(k - 1) : SubSeq(s, l, l) = " "
                /\ k = Len(s) + 1 \/ SubSeq(s, k, k) # " "
        starts ==
            {i \in 1..Len(s) :
                /\ IsDigit(i)
                /\ LET k == SkipSpace(DigitRunEnd(i))
                   IN /\ k + Len(word) - 1 <= Len(s)
                      /\ StrLower(SubSeq(s, k, k + Len(word) - 1)) = word}
    IN IF starts = {} THEN "None"
       ELSE LET i == CHOOSE a \in starts : \A b \in starts : a <= b
            IN SubSeq(s, i, DigitRunEnd(i))

\* Line 761: the description and the label contain one another.
ExactMatch(current_plan, bundle) ==
    LET bundle_desc == StrLower(bundle.description)
    IN Contains(bundle_desc, StrLower(current_plan)) \/ Contains(StrLower(current_plan), bundle_desc)

\* Lines 766-771: the identifier holds the label's tokens.
TokenMatch(current_plan, country_code, bundle) ==
    LET data_amount == NumberBefore(current_plan, "gb")
        days == NumberBefore(current_plan, "day")
        bundle_name == StrLower(bundle.name)
        match_data == Truthy(data_amount) /\ Contains(bundle_name, data_amount \o "gb")
        match_days == Truthy(days) /\ Contains(bundle_name, days \o "d")
        match_country == Truthy(country_code) /\ Contains(bundle_name, StrLower(country_code))
    IN match_data /\ match_days /\ (match_country \/ ~Truthy(country_code))

\* catalog: what travelroam_get_catalog answers; an APIError is caught at
\* line 777 and gives "".  The loop of lines 756-772 returns at the first
\* entry, in catalog order, that matches either way.
travelroam_find_matching_bundle(current_plan, country_code, catalog) ==
    LET bundles == catalog.bundles
        hits == {i \in 1..Len(bundles) :
                    \/ ExactMatch(current_plan, bundles[i])
                    \/ TokenMatch(current_plan, country_code, bundles[i])}
    IN IF ~catalog.ok \/ hits = {} THEN ""
       ELSE bundles[CHOOSE i \in hits : \A j \in hits : i <= j].name

\* Sample inputs.
MaxCatalog == 2

PlanLabels == {"eSIM, 1GB, 7 Days, Turkey, V2", "Turkey 3GB 30Days", "Unlimited Turkey", ""}

CountryCodes == {"None", "", "TR"}

Bundles ==
    { [name |-> "esim_1gb_7d_tr_u",  description |-> "eSIM, 1GB, 7 Days, Turkey, V2"],
      [name |-> "esim_1gb_7d_tr_u",  description |-> "Turkey 1GB weekly"],
      [name |-> "esim_1gb_7d_us_u",  description |-> "USA 1GB weekly"],
      [name |-> "esim_11gb_7d_tr_u", description |-> "Turkey 11GB weekly"],
      [name |-> "esim_3gb_30d_tr_u", description |-> "turkey 3gb 30days travel"],
      [name |-> "esim_5gb_15d_gb_u", description |-> "UK 5GB"],
      [name |-> "esim_20gb_30d_eu_u", description |-> ""] }

Catalogs ==
    {[ok |-> FALSE, bundles |-> <<>>]} \cup
    {[ok |-> TRUE, bundles |-> b] : b \in UNION {[1..n -> Bundles] : n \in 0..MaxCatalog}}

MatchCall ==
    /\ fn = "none"
    /\ \E current_plan \in PlanLabels, country_code \in CountryCodes, catalog \in Catalogs :
          /\ fn' = "travelroam_find_matching_bundle"
          /\ fnIn' = [current_plan |-> current_plan, country_code |-> country_code,
                      catalog |-> catalog]
          /\ fnOut' = travelroam_find_matching_bundle(current_plan, country_code, catalog)
    /\ UNCHANGED <<renewalVars, coordVars>>

NextMatch == MatchCall

SpecMatch == Init /\ [][NextMatch]_vars

(***************************************************************************)
(* Properties of the bundle matcher.                                       *)
(***************************************************************************)
\* C17: for the label "eSIM, 1GB, 7 Days, Turkey, V2" and no country code,
\* when no catalog description matches the label and the catalog lists
\* esim_1gb_7d_tr_u, the matcher returns esim_1gb_7d_tr_u and not a bundle
\* of another data size, duration or country.
C17_TokenRulePicksLabelBundle ==
    (/\ fn = "travelroam_find_matching_bundle"
     /\ fnIn.current_plan = "eSIM, 1GB, 7 Days, Turkey, V2"
     /\ ~Truthy(fnIn.country_code)
     /\ fnIn.catalog.ok
     /\ \A i \in 1..Len(fnIn.catalog.bundles) :
            ~ExactMatch(fnIn.current_plan, fnIn.catalog.bundles[i])
     /\ \E i \in 1..Len(fnIn.catalog.bundles) :
            fnIn.catalog.bundles[i].name = "esim_1gb_7d_tr_u")
    => fnOut = "esim_1gb_7d_tr_u"

\* C19: when some catalog entry's description matches the label exactly,
\* the matcher returns such an entry, even when an entry earlier in the
\* catalog qualifies by the token rule.
C19_ExactMatchPreferred ==
    LET Exact(bundle) ==
            /\ fnIn.current_plan # ""
            /\ bundle.description # ""
            /\ ExactMatch(fnIn.current_plan, bundle)
    IN (/\ fn = "travelroam_find_matching_bundle"
        /\ fnIn.catalog.ok
        /\ \E i \in 1..Len(fnIn.catalog.bundles) : Exact(fnIn.catalog.bundles[i]))
       => \E i \in 1..Len(fnIn.catalog.bundles) :
               /\ Exact(fnIn.catalog.bundles[i])
               /\ fnOut = fnIn.catalog.bundles[i].name

(***************************************************************************)
(* The matcher inside fulfilment (RenewalService._process_with_provider).  *)
(***************************************************************************)
\* C18: for a TRAVELROAM order without a package id, fulfilment either
\* calls travelroam_process_order with a bundle name the matcher returned,
\* or, when the matcher returned nothing, raises before any provider call so
\* that no bundle is purchased; the failure handler then leaves the order in
\* PROVIDER_FAILED with the not-matched error recorded.
C18_NotMatchedIsTerminal ==
    [][\A c \in SeqCallers :
         LET o == memOrder[c].order_id
             \* step 2 for a paid TRAVELROAM order that carries no package id
             NeedsMatcher ==
                 /\ pc[c] = "fulfil"
                 /\ Step2Runs(memOrder[c])
                 /\ memOrder[c].provider = "TRAVELROAM"
                 /\ Get(memOrder[c].provider_response, "package_id", "") = ""
             NotMatched(r) ==
                 /\ r # <<>>
                 /\ r.op = "none"
                 /\ r.error = "Could not find matching bundle for plan"
         IN /\ (NeedsMatcher /\ pc'[c] \in {"commit", "handle"})
               => \/ /\ fulfilCalls'[o] = fulfilCalls[o] + 1
                     /\ lastCall'[o].op = "travelroam_process_order"
                     /\ lastCall'[o].a1 \in MatcherResults \ {""}
                  \/ /\ fulfilCalls' = fulfilCalls
                     /\ lastCall' = lastCall
                     /\ pc'[c] = "handle"
                     /\ NotMatched(pending'[c])
            /\ (pc[c] = "save" /\ NotMatched(pending[c]) /\ pc'[c] = "refresh")
               => /\ fulfilCalls' = fulfilCalls
                  /\ orderRow'[o].status = "PROVIDER_FAILED"
                  /\ orderRow'[o].provider_response.error
                        = "Could not find matching bundle for plan"
                  /\ memOrder'[c].status = "PROVIDER_FAILED"
      ]_vars

\* A call returned a PROVIDER_FAILED order after the matcher found nothing,
\* and no fulfilment operation was ever invoked for the order.
C18_Witness ==
    \E c \in SeqCallers :
        /\ pc[c] = "returned"
        /\ pending[c] # <<>>
        /\ pending[c].error = "Could not find matching bundle for plan"
        /\ memOrder[c].status = "PROVIDER_FAILED"
        /\ memOrder[c].provider_response.error = "Could not find matching bundle for plan"
        /\ fulfilCalls[memOrder[c].order_id] = 0

(***************************************************************************)
(* Who writes what in the parallel coordinator.                            *)
(***************************************************************************)
\* C20: a worker thread writes nothing but its own return value; the
\* results map and found_provider are written by the coordinator's loop
\* alone, one provider's slot at a time and only from the return value of
\* a worker that has finished; a wait that times out writes no slot; a
\* finished worker's return value never changes.
C20_SingleWriter ==
    [][/\ \A p \in ProviderNames :
            /\ (wret'[p] # wret[p] \/ lookup'[p] # lookup[p] \/ (wstate'[p] = "done" /\ wstate[p] # "done"))
                  => /\ wstate[p] = "running"
                     /\ \A q \in ProviderNames \ {p} :
                            wret'[q] = wret[q] /\ lookup'[q] = lookup[q] /\ wstate'[q] = wstate[q]
                     /\ UNCHANGED <<results, found_provider, cpc, cidx, timedOut, cout>>
            /\ wstate[p] = "done" => wret'[p] = wret[p]
            /\ results'[p] # results[p]
                  => /\ cpc = "collect"
                     /\ p = FutureOrder[cidx]
                     /\ wstate[p] = "done"
                     /\ ~timedOut'[p]
                     /\ results'[p] = SlotAfter(p, results[p], wret[p])
                     /\ UNCHANGED <<wret, lookup, wstate>>
            /\ (timedOut'[p] /\ ~timedOut[p])
                  => /\ wstate[p] = "running"
                     /\ UNCHANGED <<results, found_provider, wret, lookup, wstate>>
       /\ found_provider' # found_provider
            => /\ cpc = "collect"
               /\ wstate[FutureOrder[cidx]] = "done"
               /\ found_provider' = wret[FutureOrder[cidx]][1]
      ]_vars

\* The coordinator has given up waiting for airhub, has stored the found
\* result of the finished esimcard worker, and the travelroam worker is
\* still running.
C20_Witness ==
    /\ timedOut["airhub"]
    /\ ~results["airhub"].found
    /\ results["esimcard"].found
    /\ wstate["travelroam"] = "running"

(***************************************************************************)
(* Progress of the parallel coordinator.  The coordinator thread and the   *)
(* esimcard and travelroam workers keep running; nothing makes the airhub  *)
(* worker finish: its HTTP calls may hang.                                 *)
(***************************************************************************)
SpecCoordFair ==
    /\ SpecCoord
    /\ WF_vars(Submit) /\ WF_vars(Collect) /\ WF_vars(Timeout) /\ WF_vars(Finish)
    /\ WF_vars(WorkerRun("esimcard")) /\ WF_vars(WorkerRun("travelroam"))

\* C21: when the airhub worker never finishes while the other two workers
\* do, try_fetch_from_all_apis_parallel still eventually returns to its
\* caller or raises OrderNotFoundError.
C21_SlowProviderDoesNotBlock ==
    [](wstate["airhub"] # "done") => <>(cpc = "done")

(***************************************************************************)
(* find_order_by_iccid and find_esimcard_by_iccid (script_enhanced.py).    *)
(***************************************************************************)
\* iccid.strip().replace(' ', '').replace('-', '').lower(), for ICCIDs whose
\* only white space is the blank.
RECURSIVE CleanIccid(_)
CleanIccid(s) ==
    IF s = "" THEN ""
    ELSE (IF SubSeq(s, 1, 1) \in {" ", "-"} THEN "" ELSE StrLower(SubSeq(s, 1, 1)))
         \o CleanIccid(SubSeq(s, 2, Len(s)))

\* The loop of lines 1090-1103 and 1130-1139 over the records' ICCID values
\* ("None" for a null): the position at which the loop stops, 0 if it runs
\* to the end.  A null ICCID raises at .strip() and the except clause
\* returns None; otherwise the loop returns at the first record whose clean
\* ICCID contains the clean query.
FindStop(values, iccid) ==
    LET search_iccid == CleanIccid(iccid)
        stops == {i \in 1..Len(values) :
                    \/ values[i] = "None"
                    \/ Contains(CleanIccid(values[i]), search_iccid)}
    IN IF search_iccid = "" \/ stops = {} THEN 0
       ELSE CHOOSE i \in stops : \A j \in stops : i <= j

find_order_by_iccid(orders, iccid) ==
    LET order_iccid == [i \in 1..Len(orders) |->
                          Or(Get(orders[i], "simID", ""),
                             Or(Get(orders[i], "iccid", ""), Get(orders[i], "ICCID", "")))]
        i == FindStop(order_iccid, iccid)
    IN IF i = 0 \/ order_iccid[i] = "None" THEN NoDict ELSE orders[i]

find_esimcard_by_iccid(esims, iccid) ==
    LET esim_iccid == [i \in 1..Len(esims) |->
                          Or(Get(esims[i], "iccid", ""), Get(esims[i], "ICCID", ""))]
        i == FindStop(esim_iccid, iccid)
    IN IF i = 0 \/ esim_iccid[i] = "None" THEN NoDict ELSE esims[i]

\* Sample inputs.
MaxRecords == 2

\* One call of either function on sample ICCIDs and sample record lists.
FindCall ==
    LET IccidQueries == {"8991", " 89-91 ", "899", "8991a", "", " - "}
        IccidRecords ==
            { [id |-> 1, simID |-> "8991"],
              [id |-> 2, simID |-> "", iccid |-> "89 91"],
              [id |-> 3, ICCID |-> "8991A"],
              [id |-> 4, iccid |-> "18991"],
              [id |-> 5, iccid |-> "7777"],
              [id |-> 6, iccid |-> "None"],
              [id |-> 7] }
    IN /\ fn = "none"
       /\ \E iccid \in IccidQueries,
             records \in UNION {[1..n -> IccidRecords] : n \in 0..MaxRecords} :
             /\ fnIn' = [records |-> records, iccid |-> iccid]
             /\ \/ fn' = "find_order_by_iccid" /\ fnOut' = find_order_by_iccid(records, iccid)
                \/ fn' = "find_esimcard_by_iccid" /\ fnOut' = find_esimcard_by_iccid(records, iccid)
       /\ UNCHANGED <<renewalVars, coordVars>>

NextFind == FindCall

SpecFind == Init /\ [][NextFind]_vars

\* C22: a record returned by find_order_by_iccid or find_esimcard_by_iccid
\* has an ICCID equal to the query after cleaning both, and is the first
\* such record of the list; in particular a query that is only a proper
\* part of a record's ICCID returns nothing.
C22_IccidJoinKey ==
    (fn \in {"find_order_by_iccid", "find_esimcard_by_iccid"} /\ fnOut # NoDict)
    => LET keys == IF fn = "find_order_by_iccid" THEN <<"simID", "iccid", "ICCID">>
                   ELSE <<"iccid", "ICCID">>
           Equal(r) == \E k \in 1..Len(keys) :
                          /\ keys[k] \in DOMAIN r
                          /\ r[keys[k]] # "None"
                          /\ CleanIccid(r[keys[k]]) = CleanIccid(fnIn.iccid)
           equal == {i \in 1..Len(fnIn.records) : Equal(fnIn.records[i])}
       IN /\ equal # {}
          /\ fnOut = fnIn.records[CHOOSE i \in equal : \A j \in equal : i <= j]

(***************************************************************************)
(* Concurrent requests: the views run in separate request threads.  Each   *)
(* confirm_payment executes verify_checkout_and_complete_order one query   *)
(* or transaction at a time (the payment SELECT, the lazy order SELECT,    *)
(* step 1, the provider call, step 2, the handler's refresh and its save), *)
(* process_payment reaches the gateway and then inserts its row, and the   *)
(* e-mail functions load the order and save it after sending.  The code    *)
(* takes no row lock (no select_for_update), so the steps of all requests  *)
(* interleave freely.                                                      *)
(***************************************************************************)
NextConcurrent ==
    \/ CreateOrderApi
    \/ InitiatePaymentOnce
    \/ InsertPayment
    \/ CustomerPays
    \/ SendEmailApi
    \/ \E sent \in BOOLEAN : SendEmailSave(sent)
    \/ \E c \in Callers, s \in SessionIds : Begin(c, s)
    \/ \E c \in Callers : LoadOrder(c)
    \/ \E c \in Callers, retrieved \in BOOLEAN : VerifyPayment(c, retrieved)
    \/ \E c \in Callers : ProviderCall(c)
    \/ \E c \in Callers : CommitCompleted(c)
    \/ \E c \in Callers : HandleFailure(c)
    \/ \E c \in Callers : SaveFailure(c)
    \/ \E c \in Callers : ReturnOrder(c)

SpecConcurrent == Init /\ [][NextConcurrent]_vars

\* C23: two confirm_payment calls for the same checkout session that are
\* under way at the same time never both invoke provider fulfilment.
C23_WritesSerialized ==
    \A c1, c2 \in Callers :
        (c1 # c2 /\ InFlight(c1) /\ InFlight(c2) /\ sess[c1] = sess[c2])
        => ~(info[c1].fulfil_calls > 0 /\ info[c2].fulfil_calls > 0)

\* C24: a provider's fulfilment operation is never invoked with a required
\* context key missing or empty: esimcard_purchase_package always gets a
\* package id, airhub_renew_plan always gets an order reference and a
\* positive number of renewal days.
C24_RequiredKeysPresent ==
    \A o \in DOMAIN lastCall :
        /\ lastCall[o].op = "esimcard_purchase_package" => lastCall[o].a1 # ""
        /\ lastCall[o].op = "airhub_renew_plan" => (lastCall[o].a1 # "" /\ lastCall[o].a2 > 0)

\* C25: the bundle provider's usage figures fill only an empty merged
\* usage: a data_capacity, data_consumed or data_remaining value that the
\* AirHub or eSIMCard phase has populated is the value of the final merge.
C25_BundleUsageOnlyFillsEmpty ==
    (fn = "_extract_esim_data" /\ CoordinatorShaped(fnIn))
    => LET before == MergeTravelroam(
                         MergeEsimcard(
                             MergeActivation(MergeOrder(MergedInit, fnIn.order), fnIn.activation),
                             fnIn.esimcard_data),
                         fnIn.travelroam_data, fnIn.tz[1])
       IN \A k \in {"data_capacity", "data_consumed", "data_remaining"} :
              before[k] # "N/A" => fnOut[1][k] = before[k]

\* C26: a validity supplied by the AirHub order is the validity of the
\* final merge: neither the "<N> Days" pattern of the plan label nor the
\* bundle window replaces it.
C26_ValidityOnlyIfUnset ==
    (fn = "_extract_esim_data" /\ CoordinatorShaped(fnIn))
    => LET supplied == MergeOrder(MergedInit, fnIn.order).validity
       IN supplied # "N/A" => fnOut[1].validity = supplied

\* C27: an order persisted as PROVIDER_FAILED still carries the renewal
\* parameters written at create (plan_name, package_id, renewal_days,
\* country_code) in its provider_response.
C27_ContextSurvivesFailure ==
    \A o \in DOMAIN orderRow :
        orderRow[o].status = "PROVIDER_FAILED"
        => {"plan_name", "package_id", "renewal_days", "country_code"}
              \subseteq DOMAIN orderRow[o].provider_response

(***************************************************************************)
(* The sequential coordinator try_fetch_from_all_apis (script_enhanced.py) *)
(***************************************************************************)
\* records[p]: NoDict when provider p did not find the ICCID or its API
\* failed, else the three values the function passes to the scorer for p's
\* record.  The result is the primary provider returned ("None" in the
\* tuple of Nones), or the exception that leaves the function.
try_fetch_from_all_apis(records) ==
    LET found == {p \in ProviderNames : records[p] # NoDict}
        score(p) == calculate_data_completeness(records[p].data_consumed,
                                                records[p].data_remaining, records[p].status)
        \* lines 1342-1353: the loop keeps the first provider, in the order of
        \* the results dict, whose score is above every earlier best
        best == {p \in found :
                    /\ score(p) > 0
                    /\ \A q \in found :
                          \/ score(q) < score(p)
                          \/ score(q) = score(p) /\ OrderIndex(p) <= OrderIndex(q)}
    IN IF found = {} THEN [kind |-> "returned", provider |-> "None"]
       ELSE IF best = {}
            THEN \* line 1359: best_provider.upper() with best_provider None
                 [kind |-> "AttributeError",
                  message |-> "'NoneType' object has no attribute 'upper'"]
            ELSE [kind |-> "returned", provider |-> ProviderEnum(CHOOSE p \in best : TRUE)]

\* ESIMService.get_esim_details, esim_service.py lines 53-88, on the outcome
\* of the coordinator the service is bound to: script_optimized cannot be
\* imported (it imports esimcard_get_esim_by_iccid, which script_enhanced
\* does not define), so lines 18-23 bind try_fetch_from_all_apis of
\* script_enhanced.  A tuple of Nones becomes OrderNotFoundError, a tuple
\* with a provider is merged and tagged with it, the three checker errors
\* are re-raised as they are, any other exception is wrapped in APIError.
get_esim_details(out) ==
    CASE out.kind = "returned" /\ out.provider = "None" -> [kind |-> "OrderNotFoundError"]
      [] out.kind = "returned" /\ out.provider # "None" ->
            [kind |-> "merged", api_provider |-> out.provider]
      [] out.kind \in {"OrderNotFoundError", "APIError", "AuthenticationError"} -> out
      [] OTHER ->
            [kind |-> "APIError", message |-> "Unexpected error occurred: " \o out.message]

\* One call of the coordinator, or of the service on top of it; the scorer
\* inputs each provider's branch can produce: AirHub passes the order's
\* dataConsumed and dataRemaining (null, missing or a figure) and
\* Active/Inactive; eSIMCard and TravelRoam pass "N/A" twice or two computed
\* figures, and the record's status.
SequentialCall ==
    LET Scored(usage, ss) ==
            {NoDict} \cup {[data_consumed |-> u[1], data_remaining |-> u[2], status |-> s] :
                              u \in usage, s \in ss}
        airhub == Scored({"None", "N/A", "0.4 GB"} \X {"None", "N/A", "0.6 GB"},
                         {"Active", "Inactive"})
        esimcard == Scored({<<"N/A", "N/A">>, <<"2.0", "1">>}, {"Active", "Released"})
        travelroam == Scored({<<"N/A", "N/A">>, <<"0.50", "0.50">>}, {"Installed", "Unknown"})
    IN /\ fn = "none"
       /\ \E a \in airhub, e \in esimcard, tr \in travelroam :
             LET records == [airhub |-> a, esimcard |-> e, travelroam |-> tr]
             IN /\ fn' \in {"try_fetch_from_all_apis", "get_esim_details"}
                /\ fnIn' = records
                /\ fnOut' = IF fn' = "try_fetch_from_all_apis"
                            THEN try_fetch_from_all_apis(records)
                            ELSE get_esim_details(try_fetch_from_all_apis(records))
       /\ UNCHANGED <<renewalVars, coordVars>>

NextSequential == SequentialCall

SpecSequential == Init /\ [][NextSequential]_vars

\* C28: whenever some provider found the ICCID, try_fetch_from_all_apis
\* returns normally with one of the found providers as primary.
C28_FoundGivesPrimary ==
    (fn = "try_fetch_from_all_apis" /\ \E p \in ProviderNames : fnIn[p] # NoDict)
    => /\ fnOut.kind = "returned"
       /\ \E p \in ProviderNames : fnIn[p] # NoDict /\ fnOut.provider = ProviderEnum(p)

\* C11: the lookup of the service ends in the all-providers-miss outcome
\* (OrderNotFoundError) exactly when no provider found the ICCID; when at
\* least one provider found it, a merged result is produced.
C11_MissIffAllAbsent ==
    fn = "get_esim_details"
    => fnOut.kind = IF \A p \in ProviderNames : fnIn[p] = NoDict
                    THEN "OrderNotFoundError"
                    ELSE "merged"

\* C29: a bundle the matcher returns is a catalog entry that either has a
\* non-empty description which contains, or is contained in, a non-empty
\* plan label, or has an identifier holding both the data-quantity and the
\* duration token of the label; an empty description or an empty label
\* never makes an exact match.
C29_NeverJustFirst ==
    (fn = "travelroam_find_matching_bundle" /\ fnOut # "")
    => \E i \in 1..Len(fnIn.catalog.bundles) :
          LET bundle == fnIn.catalog.bundles[i]
          IN /\ bundle.name = fnOut
             /\ \/ /\ bundle.description # ""
                   /\ fnIn.current_plan # ""
                   /\ ExactMatch(fnIn.current_plan, bundle)
                \/ TokenMatch(fnIn.current_plan, "", bundle)

(***************************************************************************)
(* The coordinator's result as a function of the workers' return values.   *)
(***************************************************************************)
\* Lines 121-172 applied to the return values of the workers in ps, taken
\* in the order of the futures dict: the slots of the other providers stay
\* as initialised.
CollectedOutcome(ps) ==
    LET slots == [p \in ProviderNames |->
                    IF p \in ps THEN SlotAfter(p, InitialResults[p], wret[p])
                    ELSE InitialResults[p]]
        hits == {i \in 1..Len(FutureOrder) :
                    FutureOrder[i] \in ps /\ wret[FutureOrder[i]][1] # "None"}
        found == IF hits = {} THEN "None"
                 ELSE wret[FutureOrder[CHOOSE i \in hits : \A j \in hits : j <= i]][1]
    IN Outcome(found, slots)

\* C30 as stated: the returned tuple (or the OrderNotFoundError) is
\* determined by what the three workers returned alone.
C30_ResultFromReturnsAlone ==
    cpc = "done" => cout = CollectedOutcome(ProviderNames)

\* C30: the returned tuple (or the OrderNotFoundError) is determined by what
\* each worker returned and by whether the coordinator's 90 s wait for that
\* worker timed out; the order in which the workers finish plays no other
\* part.
C30_ResultFromReturnsAndTimeouts ==
    cpc = "done" => cout = CollectedOutcome({p \in ProviderNames : ~timedOut[p]})

\* The call returned the data of esimcard and travelroam, whose workers
\* finished in time, without the AirHub order its worker found too late.
C30_Witness ==
    /\ cpc = "done"
    /\ timedOut["airhub"] /\ wret["airhub"][1] = "AIRHUB"
    /\ ~timedOut["esimcard"] /\ wret["esimcard"][1] = "ESIMCARD"
    /\ ~timedOut["travelroam"] /\ wret["travelroam"][1] = "TRAVELROAM"
    /\ cout.kind = "returned"
    /\ cout.value[1] = "TRAVELROAM"
    /\ cout.value[2] = "None"

====
